---- MODULE Spec2Model ----
(***************************************************************************)
(* Scene coordination of SweetPeepMessenger: the shared scene state file   *)
(* (scene_manager.py, SceneManager) and the per-character polling loop     *)
(* (dialogue_engine.py, DialogueEngine).                                   *)
(*                                                                         *)
(* Python dicts are functions whose DOMAIN is the set of keys present, so  *)
(* a missing key and a key holding None stay different.  None is the       *)
(* string "<None>" where a string may stand, and a dict that is None or    *)
(* empty is EmptyDict where the code only tests its truth value.           *)
(***************************************************************************)
EXTENDS Integers, Sequences, FiniteSets, TLC

\* The wall clock takes the values 0..MaxClock.
MaxClock == 1
\* The channel history keeps at most MaxLog messages.
MaxLog == 4
MaxStreak == 4

None == "<None>"
EmptyDict == [k \in {} |-> None]

Has(d, k) == k \in DOMAIN d
Get(d, k) == IF k \in DOMAIN d THEN d[k] ELSE None
Put(d, k, v) == [x \in DOMAIN d \cup {k} |-> IF x = k THEN v ELSE d[x]]
\* truth value of an optional string: None and "" are false
Truthy(v) == v # None /\ v # ""

\* datetime.utcnow().isoformat() at clock value t
Stamp(t) == ToString(t)

(***************************************************************************)
(* The dialogue directory.  A node is a dict with keys among speaker,      *)
(* text, wait, next.  The JSON value of "next" is tagged with its type:    *)
(* a string, a mapping (its items in insertion order), null, or anything   *)
(* else.                                                                   *)
(***************************************************************************)
Bots == {"A", "B"}

NextStr(n) == [kind |-> "str", node |-> n]
NextDict(items) == [kind |-> "dict", items |-> items]
NextNull == [kind |-> "null"]
NextOther == [kind |-> "other"]

\* the JSON value of "wait", tagged the same way
WaitNum(n) == [kind |-> "num", n |-> n]
WaitNull == [kind |-> "null"]

\* the scenario graph of the specification: start:A -> end:B
GraphHi ==
  [start |-> [speaker |-> "A", text |-> "hi", next |-> NextStr("end")],
   end   |-> [speaker |-> "B", text |-> "bye"]]

\* a branch node with a "continue" key that is not the first entry
GraphChoice ==
  [start |-> [speaker |-> "B", text |-> "pick",
              next |-> NextDict(<<<<"yes", "nodeY">>, <<"continue", "nodeC">>>>)],
   nodeY |-> [speaker |-> "A", text |-> "yes"],
   nodeC |-> [speaker |-> "A", text |-> "go on", wait |-> WaitNum(1)]]

\* nodes an advance or a start cannot resolve
GraphBad ==
  [start   |-> [speaker |-> "", text |-> "x"],
   n_other |-> [speaker |-> "A", text |-> "x", next |-> NextOther],
   n_empty |-> [speaker |-> "A", text |-> "x", next |-> NextDict(<<>>)],
   n_ghost |-> [speaker |-> "A", text |-> "x", next |-> NextStr("ghost")],
   n_mute  |-> [speaker |-> "B", text |-> "x", next |-> NextStr("mute")],
   mute    |-> [text |-> "m"]]

\* the scenario graph with "wait": null at its first node
GraphOdd ==
  [start |-> [speaker |-> "A", text |-> "hm", wait |-> WaitNull,
              next |-> NextStr("end")],
   end   |-> [speaker |-> "B", text |-> "bye"]]

\* a cycle: start:A -> mid:B -> start
GraphLoop ==
  [start |-> [speaker |-> "A", text |-> "ping", next |-> NextStr("mid")],
   mid   |-> [speaker |-> "B", text |-> "pong", next |-> NextStr("start")]]

\* graphs whose nodes all have speaker and text and whose next targets all
\* exist: a choice mapping without entries, an empty speaker at the start,
\* a next that is a number
GraphLax ==
  [start |-> [speaker |-> "A", text |-> "a", next |-> NextStr("ask")],
   ask   |-> [speaker |-> "B", text |-> "b", next |-> NextDict(<<>>)]]
GraphMute ==
  [start |-> [speaker |-> "", text |-> "x"]]
GraphNum ==
  [start |-> [speaker |-> "A", text |-> "a", next |-> NextOther]]

\* the choice mappings of at most MaxChoices entries
MaxChoices == 2
ChoiceKeys == {"continue", "yes", "no"}
ChoiceTargets == {"nodeY", "nodeC", "nodeN"}
ChoiceMaps ==
  {m \in UNION {[1..n -> ChoiceKeys \X ChoiceTargets] : n \in 1..MaxChoices} :
     \A i, j \in 1..Len(m) : m[i][1] = m[j][1] => i = j}

\* a well-formed graph whose start node branches by the mapping m
BranchGraph(m) ==
  [start |-> [speaker |-> "B", text |-> "pick", next |-> NextDict(m)],
   nodeY |-> [speaker |-> "A", text |-> "yes"],
   nodeC |-> [speaker |-> "A", text |-> "go on"],
   nodeN |-> [speaker |-> "B", text |-> "no"]]

\* the name under which the library holds BranchGraph(m)
BranchId(m) == ToString(m)

Library ==
  [id \in {"hi", "choice", "bad", "loop", "odd", "lax", "mute", "num"}
          \cup {BranchId(m) : m \in ChoiceMaps} |->
     CASE id = "hi" -> GraphHi
       [] id = "lax" -> GraphLax
       [] id = "mute" -> GraphMute
       [] id = "num" -> GraphNum
       [] id = "choice" -> GraphChoice
       [] id = "bad" -> GraphBad
       [] id = "loop" -> GraphLoop
       [] id = "odd" -> GraphOdd
       [] OTHER -> BranchGraph(CHOOSE m \in ChoiceMaps : BranchId(m) = id)]

Absent == "<absent>"
Invalid == "<invalid json>"
SceneFiles == {"hi.json", "choice.json", "bad.json", "loop.json", "odd.json"}

\* what the dialogue directory holds when the program starts
InitialDir ==
  [f \in SceneFiles |->
     CASE f = "hi.json" -> "hi"
       [] f = "choice.json" -> "choice"
       [] f = "loop.json" -> "loop"
       [] f = "odd.json" -> "odd"
       [] OTHER -> "bad"]

\* the scene state file does not exist
NoFile == [absent |-> TRUE]
\* a state file of n bytes that json.load rejects; n = 0 right after
\* open(..., "w")
Unreadable(n) == [unreadable |-> TRUE, size |-> n]

VARIABLES
  file,          \* content of shared/scene_state.json, or NoFile
  dialogue_dir,  \* scene file name -> content of the file
  now,           \* the wall clock
  channel_up,    \* whether channel.send succeeds
  is_running,    \* DialogueEngine.is_running, per bot
  pc,            \* where each bot's check task stands
  turn,          \* per bot: state and node_data of the turn in progress
  adv,           \* per bot: the state advance_scene has loaded
  stop_state,    \* the state a stop_scene in progress has loaded
  emitted,       \* messages delivered to the channel, while log_on
  log_on,        \* whether the channel history is recorded
  ev,            \* the last operation and what it returned
  writing        \* per process: the record of a save between open and close

vars == <<file, dialogue_dir, now, channel_up, is_running, pc, turn, adv,
          stop_state, emitted, log_on, ev, writing>>

(***************************************************************************)
(* SceneManager: pure parts                                                *)
(***************************************************************************)
\* load_scene_state: {} when the file does not exist or is not valid JSON
load_scene_state(f) ==
  IF f = NoFile \/ Has(f, "unreadable") THEN EmptyDict ELSE f

\* load_scene_data: None (here EmptyDict) when the file is missing or is
\* not valid JSON
load_scene_data(dir, scene_name) ==
  IF scene_name \notin DOMAIN dir THEN EmptyDict
  ELSE IF dir[scene_name] \in {Absent, Invalid} THEN EmptyDict
  ELSE Library[dir[scene_name]]

node_next(node_data) ==
  IF Has(node_data, "next") THEN node_data["next"] ELSE NextNull

HasKey(items, k) == \E i \in 1..Len(items) : items[i][1] = k
ValueOf(items, k) == items[CHOOSE i \in 1..Len(items) : items[i][1] = k][2]

\* next node resolution that takes the first entry of every mapping
resolve_next_first_entry(next_info) ==
  CASE next_info.kind = "str" -> next_info.node
    [] next_info.kind = "dict" ->
         IF Len(next_info.items) > 0 THEN next_info.items[1][2] ELSE None
    [] OTHER -> None

\* lines 186-197: the next node a "next" value names; None when it names none
resolve_next(next_info) ==
  CASE next_info.kind = "str" -> next_info.node
    [] next_info.kind = "dict" ->
         IF HasKey(next_info.items, "continue")
         THEN ValueOf(next_info.items, "continue")
         ELSE IF Len(next_info.items) > 0 THEN next_info.items[1][2] ELSE None
    [] OTHER -> None

\* start_scene that saves before it has checked the speaker
start_scene_outcome_early_save(dir, scene_name, starting_node, t) ==
  LET scene_data == load_scene_data(dir, scene_name) IN
  IF scene_data = EmptyDict
  THEN [res |-> "scene_not_found", save |-> FALSE, state |-> EmptyDict]
  ELSE IF starting_node \notin DOMAIN scene_data
  THEN [res |-> "node_not_found", save |-> FALSE, state |-> EmptyDict]
  ELSE LET first_speaker == Get(scene_data[starting_node], "speaker") IN
    [res |-> IF Truthy(first_speaker) THEN "ok" ELSE "no_speaker",
     save |-> TRUE,
     state |-> [scene |-> scene_name,
                current_node |-> starting_node,
                next_speaker |-> first_speaker,
                waiting_for_choice |-> FALSE,
                started_at |-> Stamp(t),
                scene_active |-> TRUE]]

\* start_scene with the starting node fixed to "start"
start_scene_outcome_default_node(dir, scene_name, starting_node, t) ==
  LET scene_data == load_scene_data(dir, scene_name) IN
  IF scene_data = EmptyDict
  THEN [res |-> "scene_not_found", save |-> FALSE, state |-> EmptyDict]
  ELSE IF starting_node \notin DOMAIN scene_data
  THEN [res |-> "node_not_found", save |-> FALSE, state |-> EmptyDict]
  ELSE LET first_speaker == Get(scene_data[starting_node], "speaker") IN
    IF ~Truthy(first_speaker)
    THEN [res |-> "no_speaker", save |-> FALSE, state |-> EmptyDict]
    ELSE [res |-> "ok", save |-> TRUE,
          state |-> [scene |-> scene_name,
                     current_node |-> "start",
                     next_speaker |-> first_speaker,
                     waiting_for_choice |-> FALSE,
                     started_at |-> Stamp(t),
                     scene_active |-> TRUE]]

\* start_scene, up to its save: the result and the state to save
start_scene_outcome(dir, scene_name, starting_node, t) ==
  LET scene_data == load_scene_data(dir, scene_name) IN
  IF scene_data = EmptyDict
  THEN [res |-> "scene_not_found", save |-> FALSE, state |-> EmptyDict]
  ELSE IF starting_node \notin DOMAIN scene_data
  THEN [res |-> "node_not_found", save |-> FALSE, state |-> EmptyDict]
  ELSE LET first_speaker == Get(scene_data[starting_node], "speaker") IN
    IF ~Truthy(first_speaker)
    THEN [res |-> "no_speaker", save |-> FALSE, state |-> EmptyDict]
    ELSE [res |-> "ok", save |-> TRUE,
          state |-> [scene |-> scene_name,
                     current_node |-> starting_node,
                     next_speaker |-> first_speaker,
                     waiting_for_choice |-> FALSE,
                     started_at |-> Stamp(t),
                     scene_active |-> TRUE]]

is_active(state) == Has(state, "scene_active") /\ state["scene_active"]

\* a terminal advance that saves a new record instead of updating `state`
ended_state_fresh(state, t) ==
  [scene_active |-> FALSE, current_node |-> None, next_speaker |-> None,
   ended_at |-> Stamp(t)]

\* a terminal advance that leaves scene_active set
ended_state_still_active(state, t) ==
  Put(Put(Put(state, "current_node", None), "next_speaker", None),
      "ended_at", Stamp(t))

\* the state a terminal advance saves
ended_state(state, t) ==
  Put(Put(Put(Put(state, "scene_active", FALSE), "current_node", None),
          "next_speaker", None), "ended_at", Stamp(t))

\* a non-terminal advance that leaves next_speaker as it was
advanced_state_keeps_speaker(state, next_node, next_speaker) ==
  Put(Put(state, "current_node", next_node), "waiting_for_choice", FALSE)

\* a non-terminal advance that leaves current_node as it was
advanced_state_keeps_node(state, next_node, next_speaker) ==
  Put(Put(state, "next_speaker", next_speaker), "waiting_for_choice", FALSE)

\* a non-terminal advance that waits for the choice to be made
advanced_state_waiting(state, next_node, next_speaker) ==
  Put(Put(Put(state, "current_node", next_node), "next_speaker", next_speaker),
      "waiting_for_choice", TRUE)

\* the state a non-terminal advance saves
advanced_state(state, next_node, next_speaker) ==
  Put(Put(Put(state, "current_node", next_node), "next_speaker", next_speaker),
      "waiting_for_choice", FALSE)

\* advance_scene without the scene_active test of line 148
advance_scene_outcome_unguarded(state, dir, t) ==
  LET scene_name == Get(state, "scene")
      current_node == Get(state, "current_node") IN
  IF ~Truthy(scene_name) \/ ~Truthy(current_node)
  THEN [res |-> "invalid_state", save |-> FALSE, state |-> state]
  ELSE LET scene_data == load_scene_data(dir, scene_name) IN
  IF scene_data = EmptyDict
  THEN [res |-> "scene_not_found", save |-> FALSE, state |-> state]
  ELSE IF current_node \notin DOMAIN scene_data
          \/ scene_data[current_node] = EmptyDict
  THEN [res |-> "node_not_found", save |-> FALSE, state |-> state]
  ELSE LET next_info == node_next(scene_data[current_node]) IN
  IF next_info.kind = "null"
  THEN [res |-> "ended", save |-> TRUE, state |-> ended_state(state, t)]
  ELSE IF next_info.kind \notin {"str", "dict"}
  THEN [res |-> "bad_next", save |-> FALSE, state |-> state]
  ELSE LET next_node == resolve_next(next_info) IN
  IF ~Truthy(next_node) \/ next_node \notin DOMAIN scene_data
  THEN [res |-> "next_not_found", save |-> FALSE, state |-> state]
  ELSE LET next_speaker == Get(scene_data[next_node], "speaker") IN
  IF ~Truthy(next_speaker)
  THEN [res |-> "next_no_speaker", save |-> FALSE, state |-> state]
  ELSE [res |-> "advanced", save |-> TRUE,
        state |-> advanced_state(state, next_node, next_speaker)]

\* advance_scene that updates current_node before it has the next speaker
advance_scene_outcome_early_save(state, dir, t) ==
  IF state = EmptyDict \/ ~is_active(state)
  THEN [res |-> "no_active", save |-> FALSE, state |-> state]
  ELSE LET scene_name == Get(state, "scene")
           current_node == Get(state, "current_node") IN
  IF ~Truthy(scene_name) \/ ~Truthy(current_node)
  THEN [res |-> "invalid_state", save |-> FALSE, state |-> state]
  ELSE LET scene_data == load_scene_data(dir, scene_name) IN
  IF scene_data = EmptyDict
  THEN [res |-> "scene_not_found", save |-> FALSE, state |-> state]
  ELSE IF current_node \notin DOMAIN scene_data
          \/ scene_data[current_node] = EmptyDict
  THEN [res |-> "node_not_found", save |-> FALSE, state |-> state]
  ELSE LET next_info == node_next(scene_data[current_node]) IN
  IF next_info.kind = "null"
  THEN [res |-> "ended", save |-> TRUE, state |-> ended_state(state, t)]
  ELSE IF next_info.kind \notin {"str", "dict"}
  THEN [res |-> "bad_next", save |-> FALSE, state |-> state]
  ELSE LET next_node == resolve_next(next_info) IN
  IF ~Truthy(next_node) \/ next_node \notin DOMAIN scene_data
  THEN [res |-> "next_not_found", save |-> FALSE, state |-> state]
  ELSE LET next_speaker == Get(scene_data[next_node], "speaker") IN
  IF ~Truthy(next_speaker)
  THEN [res |-> "next_no_speaker", save |-> TRUE,
        state |-> Put(state, "current_node", next_node)]
  ELSE [res |-> "advanced", save |-> TRUE,
        state |-> advanced_state(state, next_node, next_speaker)]

\* advance_scene after load_scene_state returned `state`
advance_scene_outcome(state, dir, t) ==
  IF state = EmptyDict \/ ~is_active(state)
  THEN [res |-> "no_active", save |-> FALSE, state |-> state]
  ELSE LET scene_name == Get(state, "scene")
           current_node == Get(state, "current_node") IN
  IF ~Truthy(scene_name) \/ ~Truthy(current_node)
  THEN [res |-> "invalid_state", save |-> FALSE, state |-> state]
  ELSE LET scene_data == load_scene_data(dir, scene_name) IN
  IF scene_data = EmptyDict
  THEN [res |-> "scene_not_found", save |-> FALSE, state |-> state]
  ELSE IF current_node \notin DOMAIN scene_data
          \/ scene_data[current_node] = EmptyDict
  THEN [res |-> "node_not_found", save |-> FALSE, state |-> state]
  ELSE LET next_info == node_next(scene_data[current_node]) IN
  IF next_info.kind = "null"
  THEN [res |-> "ended", save |-> TRUE, state |-> ended_state(state, t)]
  ELSE IF next_info.kind \notin {"str", "dict"}
  THEN [res |-> "bad_next", save |-> FALSE, state |-> state]
  ELSE LET next_node == resolve_next(next_info) IN
  IF ~Truthy(next_node) \/ next_node \notin DOMAIN scene_data
  THEN [res |-> "next_not_found", save |-> FALSE, state |-> state]
  ELSE LET next_speaker == Get(scene_data[next_node], "speaker") IN
  IF ~Truthy(next_speaker)
  THEN [res |-> "next_no_speaker", save |-> FALSE, state |-> state]
  ELSE [res |-> "advanced", save |-> TRUE,
        state |-> advanced_state(state, next_node, next_speaker)]

\* stop_scene without the early return on an empty state
stop_scene_outcome_always_writes(state, t) ==
  [res |-> "stopped", save |-> TRUE,
   state |-> Put(Put(Put(Put(state, "scene_active", FALSE),
                         "current_node", None),
                     "next_speaker", None), "stopped_at", Stamp(t))]

\* stop_scene that leaves current_node in place
stop_scene_outcome_keeps_node(state, t) ==
  IF state = EmptyDict
  THEN [res |-> "nothing_to_stop", save |-> FALSE, state |-> state]
  ELSE [res |-> "stopped", save |-> TRUE,
        state |-> Put(Put(Put(state, "scene_active", FALSE),
                          "next_speaker", None), "stopped_at", Stamp(t))]

\* stop_scene after load_scene_state returned `state`
\* a stop that stamps and clears the record but leaves scene_active set
stop_scene_outcome_still_active(state, t) ==
  IF state = EmptyDict
  THEN [res |-> "nothing_to_stop", save |-> FALSE, state |-> state]
  ELSE [res |-> "stopped", save |-> TRUE,
        state |-> Put(Put(Put(state, "current_node", None),
                          "next_speaker", None), "stopped_at", Stamp(t))]

stop_scene_outcome(state, t) ==
  IF state = EmptyDict
  THEN [res |-> "nothing_to_stop", save |-> FALSE, state |-> state]
  ELSE [res |-> "stopped", save |-> TRUE,
        state |-> Put(Put(Put(Put(state, "scene_active", FALSE),
                              "current_node", None),
                          "next_speaker", None), "stopped_at", Stamp(t))]

\* get_scene_status after load_scene_state returned `state`
get_scene_status(state) ==
  IF state = EmptyDict THEN [active |-> FALSE]
  ELSE [active |-> IF Has(state, "scene_active") THEN state["scene_active"] ELSE FALSE,
        scene |-> Get(state, "scene"),
        current_node |-> Get(state, "current_node"),
        next_speaker |-> Get(state, "next_speaker"),
        waiting_for_choice |->
          IF Has(state, "waiting_for_choice") THEN state["waiting_for_choice"] ELSE FALSE,
        started_at |-> Get(state, "started_at"),
        ended_at |-> Get(state, "ended_at"),
        stopped_at |-> Get(state, "stopped_at")]

(***************************************************************************)
(* DialogueEngine: pure parts                                              *)
(***************************************************************************)
\* _check_and_participate, lines 67-72: whether the loaded state calls
\* this bot
check_turn(state, bot_name) ==
  IF state = EmptyDict \/ ~is_active(state) THEN "not_active"
  ELSE IF Get(state, "next_speaker") # bot_name THEN "not_my_turn"
  ELSE "my_turn"

\* _perform_dialogue_turn without the speaker test of line 103
resolve_turn_unverified(state, dir, bot_name) ==
  LET scene_name == Get(state, "scene")
      current_node == Get(state, "current_node") IN
  IF ~Truthy(scene_name) \/ ~Truthy(current_node)
  THEN [res |-> "invalid_state", node_data |-> EmptyDict]
  ELSE LET scene_data == load_scene_data(dir, scene_name) IN
  IF scene_data = EmptyDict
  THEN [res |-> "scene_not_found", node_data |-> EmptyDict]
  ELSE IF current_node \notin DOMAIN scene_data
          \/ scene_data[current_node] = EmptyDict
  THEN [res |-> "node_not_found", node_data |-> EmptyDict]
  ELSE [res |-> "speak", node_data |-> scene_data[current_node]]

\* _perform_dialogue_turn that speaks an empty node when the current node
\* is not in the graph
resolve_turn_defaulting(state, dir, bot_name) ==
  LET scene_name == Get(state, "scene")
      current_node == Get(state, "current_node") IN
  IF ~Truthy(scene_name) \/ ~Truthy(current_node)
  THEN [res |-> "invalid_state", node_data |-> EmptyDict]
  ELSE LET scene_data == load_scene_data(dir, scene_name) IN
  IF scene_data = EmptyDict
  THEN [res |-> "scene_not_found", node_data |-> EmptyDict]
  ELSE IF current_node \notin DOMAIN scene_data
          \/ scene_data[current_node] = EmptyDict
  THEN [res |-> "speak", node_data |-> EmptyDict]
  ELSE IF Get(scene_data[current_node], "speaker") # bot_name
  THEN [res |-> "speaker_mismatch", node_data |-> EmptyDict]
  ELSE [res |-> "speak", node_data |-> scene_data[current_node]]

\* _perform_dialogue_turn, lines 83-105: the node to speak, or why not
resolve_turn(state, dir, bot_name) ==
  LET scene_name == Get(state, "scene")
      current_node == Get(state, "current_node") IN
  IF ~Truthy(scene_name) \/ ~Truthy(current_node)
  THEN [res |-> "invalid_state", node_data |-> EmptyDict]
  ELSE LET scene_data == load_scene_data(dir, scene_name) IN
  IF scene_data = EmptyDict
  THEN [res |-> "scene_not_found", node_data |-> EmptyDict]
  ELSE IF current_node \notin DOMAIN scene_data
          \/ scene_data[current_node] = EmptyDict
  THEN [res |-> "node_not_found", node_data |-> EmptyDict]
  ELSE IF Get(scene_data[current_node], "speaker") # bot_name
  THEN [res |-> "speaker_mismatch", node_data |-> EmptyDict]
  ELSE [res |-> "speak", node_data |-> scene_data[current_node]]

\* a tick that tests neither scene_active nor whose turn it is
tick_outcome_unchecked(state, dir, bot_name) ==
  resolve_turn_unverified(state, dir, bot_name)

\* the whole tick up to the send
tick_outcome(state, dir, bot_name) ==
  IF check_turn(state, bot_name) # "my_turn"
  THEN [res |-> check_turn(state, bot_name), node_data |-> EmptyDict]
  ELSE resolve_turn(state, dir, bot_name)

\* the line _send_dialogue_message posts for node_data
message(bot_name, node_data) ==
  [bot |-> bot_name,
   text |-> IF Has(node_data, "text") THEN node_data["text"] ELSE ""]

\* node_data.get("wait", 2)
wait_time(node_data) ==
  IF Has(node_data, "wait") THEN node_data["wait"] ELSE WaitNum(2)

\* asyncio.sleep raises TypeError for a delay that is not a number
sleep_raises(delay) == delay.kind # "num"

(***************************************************************************)
(* The state after construction: no state file yet, no check task running. *)
(***************************************************************************)
InitCommon ==
  /\ file = NoFile
  /\ dialogue_dir = InitialDir
  /\ now = 0
  /\ channel_up = TRUE
  /\ is_running = [p \in Bots |-> FALSE]
  /\ pc = [p \in Bots |-> "off"]
  /\ turn = [p \in Bots |-> EmptyDict]
  /\ adv = [p \in Bots |-> EmptyDict]
  /\ stop_state = EmptyDict
  /\ emitted = <<>>
  /\ ev = [op |-> "init"]
  /\ writing = [p \in Bots |-> EmptyDict]

Init == InitCommon /\ log_on = FALSE

\* time passes
ClockTick ==
  /\ now < MaxClock
  /\ now' = now + 1
  /\ UNCHANGED <<file, dialogue_dir, channel_up, is_running, pc, turn, adv,
                 stop_state, emitted, log_on, ev>>
  /\ UNCHANGED writing

(***************************************************************************)
(* SceneManager operations as one process runs them: none of them yields   *)
(* to the event loop between its load and its save.                        *)
(***************************************************************************)
\* (the commands run in one process, so no start begins inside its stop)
start_scene(scene_name, starting_node) ==
  LET r == start_scene_outcome(dialogue_dir, scene_name, starting_node, now) IN
  /\ stop_state = EmptyDict
  /\ file' = IF r.save THEN r.state ELSE file
  /\ ev' = [op |-> "start_scene", scene |-> scene_name, node |-> starting_node,
            res |-> r.res, wrote |-> r.save, t |-> now]
  /\ UNCHANGED <<dialogue_dir, now, channel_up, is_running, pc, turn, adv,
                 stop_state, emitted, log_on>>
  /\ UNCHANGED writing

\* the number of advance_scene calls in a row that the call after `last`
\* completes, counted up to MaxStreak
streak(last) ==
  IF last.op = "advance_scene" /\ last.streak < MaxStreak
  THEN last.streak + 1
  ELSE IF last.op = "advance_scene" THEN MaxStreak ELSE 1

advance_scene ==
  LET r == advance_scene_outcome(load_scene_state(file), dialogue_dir, now) IN
  /\ file' = IF r.save THEN r.state ELSE file
  /\ ev' = [op |-> "advance_scene", who |-> "api", res |-> r.res,
            wrote |-> r.save, t |-> now, streak |-> streak(ev)]
  /\ UNCHANGED <<dialogue_dir, now, channel_up, is_running, pc, turn, adv,
                 stop_state, emitted, log_on>>
  /\ UNCHANGED writing

stop_scene ==
  LET r == stop_scene_outcome(load_scene_state(file), now) IN
  /\ file' = IF r.save THEN r.state ELSE file
  /\ ev' = [op |-> "stop_scene", res |-> r.res, wrote |-> r.save, t |-> now,
            again |-> ev.op = "stop_scene"]
  /\ UNCHANGED <<dialogue_dir, now, channel_up, is_running, pc, turn, adv,
                 stop_state, emitted, log_on>>
  /\ UNCHANGED writing

\* get_scene_status that replaces a state file it cannot read
scene_status_repairing ==
  /\ file' = IF Has(file, "unreadable") THEN NoFile ELSE file
  /\ ev' = [op |-> "get_scene_status",
            ret |-> get_scene_status(load_scene_state(file))]
  /\ UNCHANGED <<dialogue_dir, now, channel_up, is_running, pc, turn,
                 adv, stop_state, emitted, log_on, writing>>

scene_status ==
  /\ ev' = [op |-> "get_scene_status",
            ret |-> get_scene_status(load_scene_state(file))]
  /\ UNCHANGED <<file, dialogue_dir, now, channel_up, is_running, pc, turn,
                 adv, stop_state, emitted, log_on>>
  /\ UNCHANGED writing

(***************************************************************************)
(* SceneManager operations with a storage that may fail.  A save fails at  *)
(* open(), leaving the file as it was, or at json.dump or close, leaving   *)
(* the file emptied; save_scene_state raises again what it caught.         *)
(***************************************************************************)
Faults == {"none", "open", "write"}

\* save_scene_state(state) on file f under the fault
save_scene_state(f, state, fault) ==
  [raised |-> fault # "none",
   file |-> CASE fault = "none" -> state
              [] fault = "open" -> f
              [] OTHER -> Unreadable(0)]

\* start_scene whose handler lets the exception of the save pass
start_scene_return_unguarded(r, raised) ==
  IF ~r.save THEN "False" ELSE IF raised THEN "raise" ELSE "True"

\* what start_scene returns: lines 108-120, 139 and 142
start_scene_return(r, raised) ==
  IF r.save /\ ~raised THEN "True" ELSE "False"

\* what advance_scene returns: the next node's data after line 216, None
\* everywhere else, line 223 included
advance_scene_return(r, raised) ==
  IF r.res = "advanced" /\ ~raised THEN "node_data" ELSE "None"

\* what stop_scene returns: lines 231, 241 and 245
stop_scene_return(r, raised) ==
  IF r.save /\ raised THEN "False" ELSE "True"

start_scene_io(scene_name, starting_node, fault) ==
  LET r == start_scene_outcome(dialogue_dir, scene_name, starting_node, now)
      w == save_scene_state(file, r.state, fault) IN
  /\ file' = IF r.save THEN w.file ELSE file
  /\ ev' = [op |-> "start_scene", res |-> r.res, tried |-> r.save,
            raised |-> r.save /\ w.raised,
            ret |-> start_scene_return(r, w.raised)]
  /\ UNCHANGED <<dialogue_dir, now, channel_up, is_running, pc, turn, adv,
                 stop_state, emitted, log_on, writing>>

advance_scene_io(fault) ==
  LET r == advance_scene_outcome(load_scene_state(file), dialogue_dir, now)
      w == save_scene_state(file, r.state, fault) IN
  /\ file' = IF r.save THEN w.file ELSE file
  /\ ev' = [op |-> "advance_scene", res |-> r.res, tried |-> r.save,
            raised |-> r.save /\ w.raised,
            ret |-> advance_scene_return(r, w.raised)]
  /\ UNCHANGED <<dialogue_dir, now, channel_up, is_running, pc, turn, adv,
                 stop_state, emitted, log_on, writing>>

stop_scene_io(fault) ==
  LET r == stop_scene_outcome(load_scene_state(file), now)
      w == save_scene_state(file, r.state, fault) IN
  /\ file' = IF r.save THEN w.file ELSE file
  /\ ev' = [op |-> "stop_scene", res |-> r.res, tried |-> r.save,
            raised |-> r.save /\ w.raised,
            ret |-> stop_scene_return(r, w.raised)]
  /\ UNCHANGED <<dialogue_dir, now, channel_up, is_running, pc, turn, adv,
                 stop_state, emitted, log_on, writing>>

(***************************************************************************)
(* save_scene_state as other processes see it: open(..., "w") empties the  *)
(* file, json.dump fills the buffer and the close writes the text at       *)
(* offset 0.  Bytes another process wrote beyond the end of that text stay *)
(* in the file.                                                            *)
(***************************************************************************)
\* length of a value as json.dump writes it
value_len(k, v) ==
  IF k \in {"scene_active", "waiting_for_choice"}
  THEN IF v THEN Len("true") ELSE Len("false")
  ELSE IF v = None THEN Len("null") ELSE Len(v) + 2

RECURSIVE items_len(_, _)
\* length of the lines of the keys `keys`: indent, quoted key, colon and
\* space, value, comma and newline
items_len(state, keys) ==
  IF keys = {} THEN 0
  ELSE LET k == CHOOSE x \in keys : TRUE IN
       (2 + Len(k) + 2 + 2 + value_len(k, state[k]) + 2)
         + items_len(state, keys \ {k})

\* length of json.dump(state, indent=2)
json_len(state) == items_len(state, DOMAIN state) + 2

\* size of the state file
size_of(f) ==
  IF f = NoFile THEN 0
  ELSE IF Has(f, "unreadable") THEN f.size ELSE json_len(f)

\* the file after the text of `state` is written at offset 0
written(f, state) ==
  IF size_of(f) > json_len(state) THEN Unreadable(size_of(f)) ELSE state

\* start_scene in process c up to the open of save_scene_state
start_scene_open(c, scene_name, starting_node) ==
  LET r == start_scene_outcome(dialogue_dir, scene_name, starting_node, now) IN
  /\ writing[c] = EmptyDict
  /\ IF r.save
     THEN /\ file' = Unreadable(0)
          /\ writing' = [writing EXCEPT ![c] = r.state]
          /\ ev' = [op |-> "start_scene_open", who |-> c]
     ELSE /\ ev' = [op |-> "start_scene", who |-> c, res |-> r.res,
                    wrote |-> FALSE]
          /\ UNCHANGED <<file, writing>>
  /\ UNCHANGED <<dialogue_dir, now, channel_up, is_running, pc, turn, adv,
                 stop_state, emitted, log_on>>

\* the close of save_scene_state writes the record
start_scene_close(c) ==
  /\ writing[c] # EmptyDict
  /\ file' = written(file, writing[c])
  /\ writing' = [writing EXCEPT ![c] = EmptyDict]
  /\ ev' = [op |-> "start_scene", who |-> c, res |-> "ok", wrote |-> TRUE]
  /\ UNCHANGED <<dialogue_dir, now, channel_up, is_running, pc, turn, adv,
                 stop_state, emitted, log_on>>

(***************************************************************************)
(* stop_scene as other processes see it: they may write the file between   *)
(* its load and its save.                                                  *)
(***************************************************************************)
stop_scene_load ==
  LET state == load_scene_state(file) IN
  /\ stop_state = EmptyDict
  /\ IF state = EmptyDict
     THEN /\ ev' = [op |-> "stop_scene", res |-> "nothing_to_stop",
                    wrote |-> FALSE, t |-> now]
          /\ UNCHANGED stop_state
     ELSE /\ stop_state' = state
          /\ ev' = [op |-> "stop_scene_load"]
  /\ UNCHANGED <<file, dialogue_dir, now, channel_up, is_running, pc, turn,
                 adv, emitted, log_on>>
  /\ UNCHANGED writing

stop_scene_save ==
  LET r == stop_scene_outcome(stop_state, now) IN
  /\ stop_state # EmptyDict
  /\ file' = r.state
  /\ stop_state' = EmptyDict
  /\ ev' = [op |-> "stop_scene", res |-> r.res, wrote |-> r.save, t |-> now]
  /\ UNCHANGED <<dialogue_dir, now, channel_up, is_running, pc, turn, adv,
                 emitted, log_on>>
  /\ UNCHANGED writing

(***************************************************************************)
(* validate_scene.  A node that is no JSON object is NotDict; the error    *)
(* list is kept as the set of its entries.                                 *)
(***************************************************************************)
NotDict == [notdict |-> TRUE]
is_dict(node_data) == ~Has(node_data, "notdict")

\* lines 320-330: the errors of the next references of node n
next_errors(scene_data, n) ==
  LET next_info == node_next(scene_data[n]) IN
  CASE next_info.kind = "str" ->
         IF next_info.node \notin DOMAIN scene_data
         THEN {<<"next", n, next_info.node>>} ELSE {}
    [] next_info.kind = "dict" ->
         {<<"choice", n, next_info.items[i][1], next_info.items[i][2]>> :
            i \in {j \in 1..Len(next_info.items) :
                     next_info.items[j][2] \notin DOMAIN scene_data}}
    [] OTHER -> {}

\* the errors of a node that skip the targets of a choice mapping
node_errors_strings_only(scene_data, n) ==
  IF ~is_dict(scene_data[n]) THEN {<<"not_dict", n>>}
  ELSE (IF Has(scene_data[n], "speaker") THEN {} ELSE {<<"speaker", n>>})
       \cup (IF Has(scene_data[n], "text") THEN {} ELSE {<<"text", n>>})
       \cup (IF node_next(scene_data[n]).kind = "str"
             THEN next_errors(scene_data, n) ELSE {})

\* lines 309-330: the errors of node n
node_errors(scene_data, n) ==
  IF ~is_dict(scene_data[n]) THEN {<<"not_dict", n>>}
  ELSE (IF Has(scene_data[n], "speaker") THEN {} ELSE {<<"speaker", n>>})
       \cup (IF Has(scene_data[n], "text") THEN {} ELSE {<<"text", n>>})
       \cup next_errors(scene_data, n)

\* the speakers collected from the nodes of the first speaker only
speakers_of_first(scene_data) ==
  {scene_data[n]["speaker"] :
     n \in {m \in DOMAIN scene_data :
              /\ is_dict(scene_data[m]) /\ Has(scene_data[m], "speaker")
              /\ \A k \in DOMAIN scene_data :
                   (is_dict(scene_data[k]) /\ Has(scene_data[k], "speaker"))
                     => scene_data[k]["speaker"] = scene_data[m]["speaker"]}}

\* lines 316-319: the speakers collected
speakers_of(scene_data) ==
  {scene_data[n]["speaker"] :
     n \in {m \in DOMAIN scene_data :
              is_dict(scene_data[m]) /\ Has(scene_data[m], "speaker")}}

\* validate_scene after load_scene_data returned scene_data
validation_result(scene_data) ==
  IF scene_data = EmptyDict
  THEN [valid |-> FALSE, errors |-> {<<"not_found">>}, nodes |-> 0,
        speakers |-> {}]
  ELSE LET errors ==
             (IF "start" \in DOMAIN scene_data THEN {} ELSE {<<"start">>})
             \cup UNION {node_errors(scene_data, n) : n \in DOMAIN scene_data} IN
       [valid |-> errors = {}, errors |-> errors,
        nodes |-> Cardinality(DOMAIN scene_data),
        speakers |-> speakers_of(scene_data)]

\* validate_scene(scene_name)
validate_scene(scene_name) ==
  LET scene_data == load_scene_data(dialogue_dir, scene_name) IN
  /\ ev' = [op |-> "validate_scene", scene_data |-> scene_data,
            ret |-> validation_result(scene_data)]
  /\ UNCHANGED <<file, dialogue_dir, now, channel_up, is_running, pc, turn,
                 adv, stop_state, emitted, log_on, writing>>

\* validate_scene of the scene file whose content was handed in
validate_loaded ==
  /\ ev.op = "init" /\ Has(ev, "scene_data")
  /\ ev' = [op |-> "validate_scene", scene_data |-> ev.scene_data,
            ret |-> validation_result(ev.scene_data)]
  /\ UNCHANGED <<file, dialogue_dir, now, channel_up, is_running, pc, turn,
                 adv, stop_state, emitted, log_on, writing>>

(***************************************************************************)
(* DialogueEngine: one check task per bot.                                 *)
(*   off   no task                                                         *)
(*   poll  about to run _check_and_participate                             *)
(*   send  in the turn, awaiting channel.send                              *)
(*   wait  in the turn, sleeping the node's wait                           *)
(*   adv   in the turn, inside advance_scene between load and save         *)
(***************************************************************************)
\* start_scene_monitoring that sets the flag and creates no task
start_scene_monitoring_idle(p) ==
  /\ ~is_running[p]
  /\ is_running' = [is_running EXCEPT ![p] = TRUE]
  /\ ev' = [op |-> "start_scene_monitoring", who |-> p]
  /\ UNCHANGED <<file, dialogue_dir, now, channel_up, pc, turn, adv,
                 stop_state, emitted, log_on, writing>>

start_scene_monitoring(p) ==
  /\ ~is_running[p]
  /\ is_running' = [is_running EXCEPT ![p] = TRUE]
  /\ pc' = [pc EXCEPT ![p] = "poll"]
  /\ ev' = [op |-> "start_scene_monitoring", who |-> p]
  /\ UNCHANGED <<file, dialogue_dir, now, channel_up, turn, adv, stop_state,
                 emitted, log_on>>
  /\ UNCHANGED writing

\* stop_scene_monitoring that also stops the scene
stop_scene_monitoring_stopping(p) ==
  LET r == stop_scene_outcome(load_scene_state(file), now) IN
  /\ is_running[p]
  /\ pc[p] \in {"poll", "send", "wait"}
  /\ is_running' = [is_running EXCEPT ![p] = FALSE]
  /\ pc' = [pc EXCEPT ![p] = "off"]
  /\ turn' = [turn EXCEPT ![p] = EmptyDict]
  /\ file' = IF r.save THEN r.state ELSE file
  /\ ev' = [op |-> "stop_scene_monitoring", who |-> p, at |-> pc[p]]
  /\ UNCHANGED <<dialogue_dir, now, channel_up, adv, stop_state,
                 emitted, log_on, writing>>

\* stop_scene_monitoring: the task is cancelled where it is suspended, in
\* a sleep or in channel.send
stop_scene_monitoring(p) ==
  /\ is_running[p]
  /\ pc[p] \in {"poll", "send", "wait"}
  /\ is_running' = [is_running EXCEPT ![p] = FALSE]
  /\ pc' = [pc EXCEPT ![p] = "off"]
  /\ turn' = [turn EXCEPT ![p] = EmptyDict]
  /\ ev' = [op |-> "stop_scene_monitoring", who |-> p, at |-> pc[p]]
  /\ UNCHANGED <<file, dialogue_dir, now, channel_up, adv, stop_state,
                 emitted, log_on, writing>>

\* a tick whose failure to resolve the node ends the loop
check_and_participate_fragile(p) ==
  LET state == load_scene_state(file)
      r == tick_outcome(state, dialogue_dir, p) IN
  /\ pc[p] = "poll"
  /\ pc' = [pc EXCEPT ![p] =
              CASE r.res = "speak" -> "send"
                [] r.res \in {"not_active", "not_my_turn"} -> "poll"
                [] OTHER -> "off"]
  /\ turn' = IF r.res = "speak"
             THEN [turn EXCEPT ![p] = [state |-> state, node_data |-> r.node_data]]
             ELSE turn
  /\ ev' = [op |-> "tick", who |-> p, res |-> r.res]
  /\ UNCHANGED <<file, dialogue_dir, now, channel_up, is_running, adv,
                 stop_state, emitted, log_on, writing>>

\* the sleep of _scene_check_loop after _check_and_participate: line 52
\* when it returned, line 57 when it raised
SceneCheckInterval == 3
ErrorInterval == 5
check_interval(raised) == IF raised THEN ErrorInterval ELSE SceneCheckInterval

\* how many ticks of p in a row, this one included, could not read the
\* state file, counted up to 2
read_failures(p, last, f) ==
  IF ~Has(f, "unreadable") THEN 0
  ELSE IF last.op = "tick" /\ last.who = p /\ last.fails >= 1 THEN 2 ELSE 1

\* a tick that goes from the speaker check to the wait without sending
check_and_participate_unsent(p) ==
  LET state == load_scene_state(file)
      r == tick_outcome(state, dialogue_dir, p) IN
  /\ pc[p] = "poll"
  /\ IF r.res = "speak"
     THEN /\ pc' = [pc EXCEPT ![p] = "wait"]
          /\ turn' = [turn EXCEPT ![p] = [state |-> state, node_data |-> r.node_data]]
     ELSE UNCHANGED <<pc, turn>>
  /\ ev' = [op |-> "tick", who |-> p, res |-> r.res,
            fails |-> read_failures(p, ev, file),
            sleep |-> check_interval(FALSE)]
  /\ UNCHANGED <<file, dialogue_dir, now, channel_up, is_running, adv,
                 stop_state, emitted, log_on, writing>>

\* _check_and_participate never raises: load_scene_state returns {} on
\* every error and line 77 catches the rest
check_and_participate(p) ==
  LET state == load_scene_state(file)
      r == tick_outcome(state, dialogue_dir, p) IN
  /\ pc[p] = "poll"
  /\ IF r.res = "speak"
     THEN /\ pc' = [pc EXCEPT ![p] = "send"]
          /\ turn' = [turn EXCEPT ![p] = [state |-> state, node_data |-> r.node_data]]
     ELSE UNCHANGED <<pc, turn>>
  /\ ev' = [op |-> "tick", who |-> p, res |-> r.res,
            fails |-> read_failures(p, ev, file),
            sleep |-> check_interval(FALSE)]
  /\ UNCHANGED <<file, dialogue_dir, now, channel_up, is_running, adv,
                 stop_state, emitted, log_on>>
  /\ UNCHANGED writing

\* a send whose failure ends the turn
send_dialogue_message_aborting(p) ==
  /\ pc[p] = "send"
  /\ emitted' = IF channel_up /\ log_on /\ Len(emitted) < MaxLog
                THEN Append(emitted, message(p, turn[p].node_data))
                ELSE emitted
  /\ pc' = [pc EXCEPT ![p] = IF channel_up THEN "wait" ELSE "poll"]
  /\ turn' = [turn EXCEPT ![p] = IF channel_up THEN turn[p] ELSE EmptyDict]
  /\ ev' = [op |-> "send", who |-> p, msg |-> message(p, turn[p].node_data),
            ok |-> channel_up]
  /\ UNCHANGED <<file, dialogue_dir, now, channel_up, is_running, adv,
                 stop_state, log_on, writing>>

send_dialogue_message(p) ==
  /\ pc[p] = "send"
  /\ emitted' = IF channel_up /\ log_on /\ Len(emitted) < MaxLog
                THEN Append(emitted, message(p, turn[p].node_data))
                ELSE emitted
  /\ pc' = [pc EXCEPT ![p] = "wait"]
  /\ ev' = [op |-> "send", who |-> p, msg |-> message(p, turn[p].node_data),
            ok |-> channel_up]
  /\ UNCHANGED <<file, dialogue_dir, now, channel_up, is_running, turn, adv,
                 stop_state, log_on>>
  /\ UNCHANGED writing

\* a turn that ends after the wait without calling advance_scene
advance_skipped(p) ==
  /\ pc[p] = "wait"
  /\ pc' = [pc EXCEPT ![p] = "poll"]
  /\ turn' = [turn EXCEPT ![p] = EmptyDict]
  /\ ev' = [op |-> "turn_done", who |-> p]
  /\ UNCHANGED <<file, dialogue_dir, now, channel_up, is_running, adv,
                 stop_state, emitted, log_on>>
  /\ UNCHANGED writing

\* advance_scene that goes on without testing scene_active
advance_load_untested(p) ==
  LET state == load_scene_state(file) IN
  /\ pc[p] = "wait"
  /\ IF sleep_raises(wait_time(turn[p].node_data))
     THEN /\ pc' = [pc EXCEPT ![p] = "poll"]
          /\ turn' = [turn EXCEPT ![p] = EmptyDict]
          /\ ev' = [op |-> "turn", who |-> p, res |-> "exception"]
          /\ UNCHANGED <<adv, file>>
     ELSE /\ pc' = [pc EXCEPT ![p] = "poll"]
          /\ turn' = [turn EXCEPT ![p] = EmptyDict]
          /\ file' = IF state = EmptyDict THEN file
                     ELSE Put(state, "scene_active", TRUE)
          /\ ev' = [op |-> "advance_scene", who |-> p, res |-> "advanced",
                    wrote |-> state # EmptyDict, t |-> now]
          /\ UNCHANGED adv
  /\ UNCHANGED <<dialogue_dir, now, channel_up, is_running, stop_state,
                 emitted, log_on, writing>>

\* the sleep of the node's wait, then advance_scene loads the state
advance_load(p) ==
  LET state == load_scene_state(file) IN
  /\ pc[p] = "wait"
  /\ IF sleep_raises(wait_time(turn[p].node_data))
     THEN \* lines 119-120: the turn is over, the loop goes on
          /\ pc' = [pc EXCEPT ![p] = "poll"]
          /\ turn' = [turn EXCEPT ![p] = EmptyDict]
          /\ ev' = [op |-> "turn", who |-> p, res |-> "exception"]
          /\ UNCHANGED adv
     ELSE IF state = EmptyDict \/ ~is_active(state)
     THEN /\ pc' = [pc EXCEPT ![p] = "poll"]
          /\ turn' = [turn EXCEPT ![p] = EmptyDict]
          /\ ev' = [op |-> "advance_scene", who |-> p, res |-> "no_active",
                    wrote |-> FALSE, t |-> now]
          /\ UNCHANGED adv
     ELSE /\ pc' = [pc EXCEPT ![p] = "adv"]
          /\ adv' = [adv EXCEPT ![p] = state]
          /\ ev' = [op |-> "advance_load", who |-> p]
          /\ UNCHANGED turn
  /\ UNCHANGED <<file, dialogue_dir, now, channel_up, is_running, stop_state,
                 emitted, log_on>>
  /\ UNCHANGED writing

\* advance_scene resolves the next node and saves
advance_save(p) ==
  LET r == advance_scene_outcome(adv[p], dialogue_dir, now) IN
  /\ pc[p] = "adv"
  /\ file' = IF r.save THEN r.state ELSE file
  /\ pc' = [pc EXCEPT ![p] = "poll"]
  /\ turn' = [turn EXCEPT ![p] = EmptyDict]
  /\ adv' = [adv EXCEPT ![p] = EmptyDict]
  /\ ev' = [op |-> "advance_scene", who |-> p, res |-> r.res,
            wrote |-> r.save, t |-> now]
  /\ UNCHANGED <<dialogue_dir, now, channel_up, is_running, stop_state,
                 emitted, log_on>>
  /\ UNCHANGED writing

\* the channel becomes unavailable (no bot instance, channel not found or
\* channel.send raising) or available again
channel_change ==
  /\ channel_up' = ~channel_up
  /\ UNCHANGED <<file, dialogue_dir, now, is_running, pc, turn, adv,
                 stop_state, emitted, log_on, ev, writing>>

(***************************************************************************)
(* The commands of one bot process.  Its event loop runs a coroutine up to *)
(* an await that suspends; the awaits of advance_scene, stop_scene and     *)
(* start_scene (load_scene_state, load_scene_data, the free lock of        *)
(* save_scene_state) do not suspend, so a command handler of process c     *)
(* starts only when c's check task is not inside advance_scene.            *)
(***************************************************************************)
\* self.lock and self.file_lock of process c are held: c is inside the
\* with blocks of save_scene_state
lock_held(c) == writing[c] # EmptyDict

\* an event loop that also switches tasks inside advance_scene
loop_free_anywhere(c) == TRUE

\* c's event loop can start another coroutine
loop_free(c) == pc[c] # "adv" /\ ~lock_held(c)

command_start(c, scene_name) ==
  LET r == start_scene_outcome(dialogue_dir, scene_name, "start", now) IN
  /\ loop_free(c)
  /\ file' = IF r.save THEN r.state ELSE file
  /\ ev' = [op |-> "start_scene", who |-> c, res |-> r.res, wrote |-> r.save]
  /\ UNCHANGED <<dialogue_dir, now, channel_up, is_running, pc, turn, adv,
                 stop_state, emitted, log_on, writing>>

command_stop(c) ==
  LET r == stop_scene_outcome(load_scene_state(file), now) IN
  /\ loop_free(c)
  /\ file' = IF r.save THEN r.state ELSE file
  /\ ev' = [op |-> "stop_scene", who |-> c, res |-> r.res, wrote |-> r.save]
  /\ UNCHANGED <<dialogue_dir, now, channel_up, is_running, pc, turn, adv,
                 stop_state, emitted, log_on, writing>>

\* the state file is left with text that is not valid JSON
damage_state_file ==
  /\ file # NoFile /\ ~Has(file, "unreadable")
  /\ file' = Unreadable(size_of(file))
  /\ UNCHANGED <<dialogue_dir, now, channel_up, is_running, pc, turn, adv,
                 stop_state, emitted, log_on, ev, writing>>

\* somebody rewrites or removes a scene file
edit_scene_file(f, content) ==
  /\ dialogue_dir[f] # content
  /\ dialogue_dir' = [dialogue_dir EXCEPT ![f] = content]
  /\ UNCHANGED <<file, now, channel_up, is_running, pc, turn, adv, stop_state,
                 emitted, log_on, ev>>
  /\ UNCHANGED writing

(***************************************************************************)
(* Specifications                                                          *)
(***************************************************************************)
\* what the /startscene command may be given
CommandScenes == {"hi.json", "choice.json", "bad.json", "missing.json"}
\* what start_scene may be given as starting node
StartNodes == {"start", "end", "nodeC", "n_other", "n_empty", "n_ghost",
               "n_mute", "mute", "ghost"}

Participant(p) ==
  \/ start_scene_monitoring(p)
  \/ check_and_participate(p)
  \/ send_dialogue_message(p)
  \/ advance_load(p)
  \/ advance_save(p)

\* the coordinator's commands and every bot's check task, as processes
Next ==
  \/ \E s \in CommandScenes : start_scene(s, "start")
  \/ stop_scene_load
  \/ stop_scene_save
  \/ \E p \in Bots : Participant(p)
  \/ ClockTick

Spec == Init /\ [][Next]_vars

\* one process calling the SceneManager
CoordNext ==
  \/ \E s \in CommandScenes, n \in StartNodes : start_scene(s, n)
  \/ advance_scene
  \/ stop_scene
  \/ scene_status
  \/ ClockTick

SpecCoord == Init /\ [][CoordNext]_vars

(***************************************************************************)
(* Properties of the SceneManager run by one process (SpecCoord)           *)
(***************************************************************************)
\* a key is present: it exists and does not hold None
Present(state, k) == Has(state, k) /\ state[k] # None
\* a key is absent: it is missing or holds None
Missing(state, k) == ~Has(state, k) \/ state[k] = None

\* C2: in every persisted state, an active scene has scene, current_node
\* and next_speaker present and current_node is a node of the named graph;
\* an inactive one (or no record) has no current_node and no next_speaker.
SceneStateInvariant ==
  LET state == load_scene_state(file) IN
  /\ is_active(state) =>
       /\ Present(state, "scene")
       /\ Present(state, "current_node")
       /\ Present(state, "next_speaker")
       /\ state["current_node"] \in DOMAIN load_scene_data(dialogue_dir, state["scene"])
  /\ ~is_active(state) =>
       /\ Missing(state, "current_node")
       /\ Missing(state, "next_speaker")

\* C2 witness: an advance has moved an active scene to its next node
SceneStateWitness ==
  /\ ev.op = "advance_scene" /\ ev.res = "advanced"
  /\ is_active(load_scene_state(file))

\* C8: a successful start(scene, node) has persisted exactly the six fields
\* of a fresh active state, with the node's declared speaker, and status()
\* then reports it.
StartPersistsFreshState ==
  (ev.op = "start_scene" /\ ev.res = "ok") =>
    LET status == get_scene_status(load_scene_state(file)) IN
    /\ file = [scene |-> ev.scene,
               current_node |-> ev.node,
               next_speaker |-> Library[InitialDir[ev.scene]][ev.node]["speaker"],
               waiting_for_choice |-> FALSE,
               started_at |-> Stamp(ev.t),
               scene_active |-> TRUE]
    /\ status.active = TRUE
    /\ status.current_node = ev.node
    /\ status.next_speaker = Library[InitialDir[ev.scene]][ev.node]["speaker"]
    /\ status.ended_at = None
    /\ status.stopped_at = None

\* C8 witness: a start at a later clock value, on a node other than "start"
StartPersistsWitness ==
  /\ ev.op = "start_scene" /\ ev.res = "ok"
  /\ ev.node = "nodeC" /\ ev.t = 1

\* C9: advance() on an idle state (no record, or scene_active false)
\* returns "no active scene" and writes nothing.
AdvanceIdleIsNoOp ==
  [][(advance_scene /\ ~is_active(load_scene_state(file))) =>
       (file' = file /\ ev'.res = "no_active" /\ ~ev'.wrote)]_vars

\* C9 witness: an advance has returned on a stopped or ended record
AdvanceIdleWitness ==
  /\ ev.op = "advance_scene" /\ ev.res = "no_active"
  /\ file # NoFile /\ ~is_active(file)

\* the current node of an active state has no next
AtTerminalNode(state, dir) ==
  /\ is_active(state)
  /\ Get(state, "scene") \in DOMAIN dir
  /\ dir[state["scene"]] \in DOMAIN Library
  /\ Get(state, "current_node") \in DOMAIN Library[dir[state["scene"]]]
  /\ ~Has(Library[dir[state["scene"]]][state["current_node"]], "next")

\* C10: advance() on an active state whose current node has no next saves
\* scene_active=false, current_node and next_speaker cleared, ended_at set,
\* and keeps every other field (scene, started_at).
TerminalAdvanceEndsScene ==
  [][(advance_scene /\ AtTerminalNode(load_scene_state(file), dialogue_dir)) =>
       /\ ev'.wrote
       /\ file' = [k \in DOMAIN file \cup {"ended_at"} |->
                     CASE k = "scene_active" -> FALSE
                       [] k = "current_node" -> None
                       [] k = "next_speaker" -> None
                       [] k = "ended_at" -> Stamp(now)
                       [] OTHER -> file[k]]
       /\ Has(file', "scene") /\ Has(file', "started_at")]_vars

\* C10 witness: a scene has ended by an advance
TerminalAdvanceWitness ==
  /\ ev.op = "advance_scene" /\ ev.res = "ended"
  /\ ~is_active(file) /\ Has(file, "ended_at") /\ Has(file, "started_at")

(***************************************************************************)
(* Failures (SpecEdit: one process calling the SceneManager while scene    *)
(* files are rewritten or removed)                                         *)
(***************************************************************************)
EditFiles == {"hi.json"}
EditContents == {"hi", "choice", Absent, Invalid}

EditNext ==
  \/ CoordNext
  \/ \E f \in EditFiles, c \in EditContents : edit_scene_file(f, c)

SpecEdit == Init /\ [][EditNext]_vars

\* the scene file holds a graph
Loadable(dir, scene_name) ==
  scene_name \in DOMAIN dir /\ dir[scene_name] \in DOMAIN Library
GraphOf(dir, scene_name) == Library[dir[scene_name]]

\* the ways an advance of an active state fails: graph not loadable,
\* current node missing, next of an invalid type, empty choice mapping,
\* next target not in the graph, next node without speaker
AdvanceFails(state, dir) ==
  \/ ~Loadable(dir, Get(state, "scene"))
  \/ /\ Loadable(dir, Get(state, "scene"))
     /\ LET g == GraphOf(dir, state["scene"]) IN
        \/ Get(state, "current_node") \notin DOMAIN g
        \/ /\ Get(state, "current_node") \in DOMAIN g
           /\ Has(g[state["current_node"]], "next")
           /\ LET nxt == g[state["current_node"]]["next"] IN
              \/ nxt.kind = "other"
              \/ nxt.kind = "dict" /\ nxt.items = <<>>
              \/ nxt.kind = "str" /\ nxt.node \notin DOMAIN g
              \/ nxt.kind = "str" /\ nxt.node \in DOMAIN g
                   /\ ~Has(g[nxt.node], "speaker")

\* C6: a failed advance() leaves the persisted state exactly as it was.
FailedAdvanceLeavesState ==
  [][(/\ advance_scene
      /\ is_active(load_scene_state(file))
      /\ AdvanceFails(load_scene_state(file), dialogue_dir)) =>
       (file' = file /\ ~ev'.wrote /\ ev'.res \notin {"advanced", "ended"})]_vars

\* C6 witness: an advance has failed on a next node without speaker, the
\* last test before the save
FailedAdvanceWitness ==
  /\ ev.op = "advance_scene" /\ ev.res = "next_no_speaker"
  /\ is_active(file) /\ file["current_node"] = "n_mute"

\* the ways a start fails: graph absent or unparsable, starting node not in
\* the graph, starting node without a speaker
StartFails(dir, scene_name, starting_node) ==
  \/ ~Loadable(dir, scene_name)
  \/ /\ Loadable(dir, scene_name)
     /\ \/ starting_node \notin DOMAIN GraphOf(dir, scene_name)
        \/ /\ starting_node \in DOMAIN GraphOf(dir, scene_name)
           /\ Get(GraphOf(dir, scene_name)[starting_node], "speaker") \in {None, ""}

\* C7: a failed start() returns failure and leaves the prior state
\* untouched.
FailedStartLeavesState ==
  [][\A s \in CommandScenes, n \in StartNodes :
       (start_scene(s, n) /\ StartFails(dialogue_dir, s, n)) =>
         (file' = file /\ ~ev'.wrote /\ ev'.res # "ok")]_vars

\* C7 witness: a start has failed for want of a speaker while a scene was
\* active
FailedStartWitness ==
  /\ ev.op = "start_scene" /\ ev.res = "no_speaker"
  /\ is_active(file)

(***************************************************************************)
(* Turns under concurrency (Spec)                                          *)
(***************************************************************************)
\* a bot is inside a turn from passing the speaker re-check to the return
\* of its advance_scene call
InTurn(p) == pc[p] \in {"send", "wait", "adv"}

\* C1: at most one participant at a time is inside a turn.
TurnMutualExclusion ==
  \A p, q \in Bots : (InTurn(p) /\ InTurn(q)) => p = q

\* the state the caller's advance finds is not the one its turn was taken
\* on, and does not name the caller as speaker
AdvancedByOthers(p) ==
  /\ pc[p] = "adv"
  /\ Get(adv[p], "scene") # Get(turn[p].state, "scene")
       \/ Get(adv[p], "current_node") # Get(turn[p].state, "current_node")
       \/ Get(adv[p], "started_at") # Get(turn[p].state, "started_at")
  /\ Get(adv[p], "next_speaker") # p

\* C4: an advance() issued against a state that was advanced or replaced
\* since the caller read it, and whose speaker is not the caller, changes
\* neither current_node nor next_speaker.
StaleAdvanceIgnored ==
  [][\A p \in Bots :
       (advance_save(p) /\ AdvancedByOthers(p)) =>
         /\ Get(load_scene_state(file'), "current_node")
              = Get(load_scene_state(file), "current_node")
         /\ Get(load_scene_state(file'), "next_speaker")
              = Get(load_scene_state(file), "next_speaker")]_vars

(***************************************************************************)
(* One scene played from start to end (SpecRun): a single start of a       *)
(* well-formed acyclic scene, every bot's check task scheduled again and   *)
(* again, the channel recorded.                                            *)
(***************************************************************************)
RunScenes == {"hi.json", "choice.json"}

InitRun == InitCommon /\ log_on = TRUE

start_once(s) == file = NoFile /\ start_scene(s, "start")

RunNext ==
  \/ \E s \in RunScenes : start_once(s)
  \/ \E p \in Bots : Participant(p)
  \/ ClockTick

SpecRun ==
  /\ InitRun
  /\ [][RunNext]_vars
  /\ \A p \in Bots : WF_vars(Participant(p))

\* the nodes each scene passes through, and the lines it posts
ExpectedNodes ==
  [f \in RunScenes |->
     IF f = "hi.json" THEN <<"start", "end">> ELSE <<"start", "nodeC">>]
ExpectedLines ==
  [f \in RunScenes |->
     IF f = "hi.json"
     THEN <<[bot |-> "A", text |-> "hi"], [bot |-> "B", text |-> "bye"]>>
     ELSE <<[bot |-> "B", text |-> "pick"], [bot |-> "A", text |-> "go on"]>>]

\* the index of the current node on the scene's path, 0 when it is on none
PathIndex(state) ==
  LET path == ExpectedNodes[state["scene"]]
      hits == {i \in 1..Len(path) : path[i] = Get(state, "current_node")} IN
  IF hits = {} THEN 0 ELSE CHOOSE i \in hits : TRUE

\* the channel holds the lines of the path so far, each once and in order:
\* all up to the current node, the current node's own line once posted
LinesFollowPath ==
  file # NoFile =>
    LET lines == ExpectedLines[file["scene"]]
        i == PathIndex(file) IN
    IF is_active(file)
    THEN /\ i >= 1
         /\ file["next_speaker"] = lines[i].bot
         /\ emitted \in {SubSeq(lines, 1, i - 1), SubSeq(lines, 1, i)}
    ELSE /\ emitted = lines
         /\ Has(file, "ended_at")

\* the state moves along the path one node at a time, after the node's
\* line has been posted, and ends after the last node
StateFollowsPath ==
  (file # NoFile /\ file' # file) =>
    LET path == ExpectedNodes[file["scene"]]
        i == PathIndex(file) IN
    /\ is_active(file)
    /\ Len(emitted) = i
    /\ IF i < Len(path)
       THEN is_active(file') /\ file'["current_node"] = path[i + 1]
       ELSE ~is_active(file')

\* C3: after start() of a well-formed acyclic graph, with every bot's check
\* task running and no other start or stop, the texts are posted exactly
\* once each, in path order, each by the node's declared speaker; the state
\* passes through the path's nodes in order and the scene finally ends.
TurnSequence ==
  /\ []LinesFollowPath
  /\ [][StateFollowsPath]_vars
  /\ \A f \in RunScenes :
       (file # NoFile /\ file["scene"] = f)
         ~> (~is_active(file) /\ emitted = ExpectedLines[f])

\* C3 witness: the scenario scene has ended with both lines posted
TurnSequenceWitness ==
  /\ file # NoFile /\ file["scene"] = "hi.json" /\ ~is_active(file)
  /\ emitted = <<[bot |-> "A", text |-> "hi"], [bot |-> "B", text |-> "bye"]>>

(***************************************************************************)
(* Stale reads (SpecStale): the bots' check tasks while scenes are started *)
(* and a scene file is rewritten under an active scene.                    *)
(***************************************************************************)
StaleNext ==
  \/ \E s \in RunScenes : start_scene(s, "start")
  \/ \E p \in Bots : Participant(p)
  \/ \E f \in EditFiles, c \in EditContents : edit_scene_file(f, c)

SpecStale == Init /\ [][StaleNext]_vars

\* the state names p as next speaker but the graph declares another
\* speaker for the current node
StaleRead(p) ==
  LET state == load_scene_state(file) IN
  /\ is_active(state)
  /\ Get(state, "next_speaker") = p
  /\ Loadable(dialogue_dir, Get(state, "scene"))
  /\ Get(state, "current_node") \in DOMAIN GraphOf(dialogue_dir, state["scene"])
  /\ Get(GraphOf(dialogue_dir, state["scene"])[state["current_node"]], "speaker") # p

\* C5: a tick that reads next_speaker = own name while the node declares
\* another speaker posts nothing, does not advance and leaves the state.
StaleReadBackstop ==
  [][\A p \in Bots :
       (check_and_participate(p) /\ StaleRead(p)) =>
         (pc'[p] = "poll" /\ file' = file /\ emitted' = emitted
          /\ ev'.res = "speaker_mismatch")]_vars

\* C5 witness: a bot named by next_speaker has found another declared
\* speaker
StaleReadWitness ==
  /\ ev.op = "tick" /\ ev.res = "speaker_mismatch"
  /\ is_active(file) /\ file["next_speaker"] = ev.who /\ pc[ev.who] = "poll"

(***************************************************************************)
(* Advancing (SpecCoord)                                                   *)
(***************************************************************************)
\* the targets a "next" value can name
Targets(nxt) ==
  CASE nxt.kind = "str" -> {nxt.node}
    [] nxt.kind = "dict" -> {nxt.items[i][2] : i \in 1..Len(nxt.items)}
    [] OTHER -> {}

\* the current node of an active state has a next whose every target is a
\* node of the graph with a speaker
AtResolvableNode(state, dir) ==
  /\ is_active(state)
  /\ Loadable(dir, Get(state, "scene"))
  /\ Get(state, "current_node") \in DOMAIN GraphOf(dir, state["scene"])
  /\ LET g == GraphOf(dir, state["scene"])
         node == g[state["current_node"]] IN
     /\ Has(node, "next")
     /\ Targets(node["next"]) # {}
     /\ \A n \in Targets(node["next"]) :
          n \in DOMAIN g /\ Get(g[n], "speaker") \notin {None, ""}

\* C11: a successful non-terminal advance() saves current_node = the
\* resolved next node (for a single node-id, that node-id), next_speaker =
\* its declared speaker, waiting_for_choice = false, and keeps every other
\* field (scene_active true, scene, started_at).
NonTerminalAdvance ==
  [][(advance_scene /\ AtResolvableNode(load_scene_state(file), dialogue_dir)) =>
       LET g == GraphOf(dialogue_dir, file["scene"])
           nxt == g[file["current_node"]]["next"]
           reached == Get(load_scene_state(file'), "current_node") IN
       /\ ev'.wrote /\ ev'.res = "advanced"
       /\ reached \in Targets(nxt)
       /\ nxt.kind = "str" => reached = nxt.node
       /\ file' = [k \in DOMAIN file |->
                     CASE k = "current_node" -> reached
                       [] k = "next_speaker" -> g[reached]["speaker"]
                       [] k = "waiting_for_choice" -> FALSE
                       [] OTHER -> file[k]]
       /\ is_active(file')
       /\ Has(file', "scene") /\ Has(file', "started_at")]_vars

\* C11 witness: an advance has followed a single node-id to a node of
\* another speaker
NonTerminalAdvanceWitness ==
  /\ ev.op = "advance_scene" /\ ev.res = "advanced"
  /\ is_active(file) /\ file["scene"] = "hi.json"
  /\ file["current_node"] = "end" /\ file["next_speaker"] = "B"

(***************************************************************************)
(* Branch resolution (SpecBranch): choice.json holds a graph whose start   *)
(* node branches by any of the mappings of ChoiceMaps.                     *)
(***************************************************************************)
InitBranch ==
  /\ file = NoFile
  /\ dialogue_dir \in {[InitialDir EXCEPT !["choice.json"] = BranchId(m)] :
                         m \in ChoiceMaps}
  /\ now = 0
  /\ channel_up = TRUE
  /\ is_running = [p \in Bots |-> FALSE]
  /\ pc = [p \in Bots |-> "off"]
  /\ turn = [p \in Bots |-> EmptyDict]
  /\ adv = [p \in Bots |-> EmptyDict]
  /\ stop_state = EmptyDict
  /\ emitted = <<>>
  /\ log_on = FALSE
  /\ ev = [op |-> "init"]
  /\ writing = [p \in Bots |-> EmptyDict]

BranchNext ==
  \/ start_scene("choice.json", "start")
  \/ advance_scene
  \/ stop_scene
  \/ ClockTick

SpecBranch == InitBranch /\ [][BranchNext]_vars

\* the current node of an active state has a non-empty choice mapping
AtBranchNode(state, dir) ==
  /\ AtResolvableNode(state, dir)
  /\ GraphOf(dir, state["scene"])[state["current_node"]]["next"].kind = "dict"

\* C12: when next is a choice mapping, advance() selects the target of the
\* "continue" key whenever the key is present, whatever its position and
\* the other keys; otherwise the target of the first entry.
BranchResolution ==
  [][(advance_scene /\ AtBranchNode(load_scene_state(file), dialogue_dir)) =>
       LET items == GraphOf(dialogue_dir, file["scene"])[file["current_node"]]["next"].items
           reached == Get(load_scene_state(file'), "current_node") IN
       /\ ev'.res = "advanced"
       /\ \A i \in 1..Len(items) : items[i][1] = "continue" => reached = items[i][2]
       /\ (\A i \in 1..Len(items) : items[i][1] # "continue") => reached = items[1][2]]_vars

\* C12 witness: the mapping {"yes": nodeY, "continue": nodeC} has been
\* resolved to nodeC
BranchResolutionWitness ==
  /\ ev.op = "advance_scene" /\ ev.res = "advanced"
  /\ dialogue_dir["choice.json"] = BranchId(<<<<"yes", "nodeY">>, <<"continue", "nodeC">>>>)
  /\ is_active(file) /\ file["current_node"] = "nodeC"

(***************************************************************************)
(* Stopping (SpecCoord)                                                    *)
(***************************************************************************)
\* the state is inactive with current_node and next_speaker cleared
Cleared(state) ==
  /\ ~is_active(state)
  /\ Get(state, "current_node") = None
  /\ Get(state, "next_speaker") = None

\* C13: stop() succeeds from every state and leaves scene_active false with
\* current_node and next_speaker cleared; a stop() that follows a stop()
\* succeeds again and changes nothing but stopped_at; with no state record
\* stop() succeeds without writing one.
StopIdempotent ==
  [][stop_scene =>
       /\ ev'.res \in {"nothing_to_stop", "stopped"}
       /\ Cleared(load_scene_state(file'))
       /\ file = NoFile => (file' = NoFile /\ ~ev'.wrote)
       /\ file # NoFile => (ev'.wrote /\ Has(file', "stopped_at"))
       /\ ev.op = "stop_scene" =>
            /\ DOMAIN file' = DOMAIN file
            /\ \A k \in DOMAIN file : k # "stopped_at" => file'[k] = file[k]]_vars

\* C13 witness: a second stop() in a row has returned on an existing record
StopIdempotentWitness ==
  /\ ev.op = "stop_scene" /\ ev.again /\ ev.res = "stopped"
  /\ Has(file, "scene") /\ Cleared(file)

(***************************************************************************)
(* Walking a graph by repeated advance() (SpecWalk): hi.json, loop.json    *)
(* and, in choice.json, GraphChoice or any graph of the branch family.     *)
(***************************************************************************)
WalkScenes == {"hi.json", "choice.json", "loop.json"}

InitWalk ==
  /\ file = NoFile
  /\ dialogue_dir \in {InitialDir} \cup
                      {[InitialDir EXCEPT !["choice.json"] = BranchId(m)] :
                         m \in ChoiceMaps}
  /\ now = 0
  /\ channel_up = TRUE
  /\ is_running = [p \in Bots |-> FALSE]
  /\ pc = [p \in Bots |-> "off"]
  /\ turn = [p \in Bots |-> EmptyDict]
  /\ adv = [p \in Bots |-> EmptyDict]
  /\ stop_state = EmptyDict
  /\ emitted = <<>>
  /\ log_on = FALSE
  /\ ev = [op |-> "init"]
  /\ writing = [p \in Bots |-> EmptyDict]

WalkNext ==
  \/ \E s \in WalkScenes : start_scene(s, "start")
  \/ advance_scene
  \/ scene_status

SpecWalk == InitWalk /\ [][WalkNext]_vars

\* every node has a speaker and every next names nodes of the graph
WellFormed(g) ==
  \A n \in DOMAIN g :
    /\ Get(g[n], "speaker") \notin {None, ""}
    /\ node_next(g[n]).kind \in {"str", "dict", "null"}
    /\ node_next(g[n]).kind # "null" => Targets(node_next(g[n])) # {}
    /\ Targets(node_next(g[n])) \subseteq DOMAIN g

RECURSIVE ReachWithin(_, _, _)
\* the nodes at most k edges after a node of S
ReachWithin(g, S, k) ==
  IF k = 0 THEN S
  ELSE ReachWithin(g, S \cup UNION {Targets(node_next(g[n])) : n \in S}, k - 1)

\* no node of g is reachable from itself
Acyclic(g) ==
  \A n \in DOMAIN g :
    n \notin ReachWithin(g, Targets(node_next(g[n])), Cardinality(DOMAIN g))

\* C14: in a well-formed acyclic graph of N nodes, once N advance() calls
\* in a row have followed start(scene, "start"), scene_active is false.
WalkTerminates ==
  (/\ ev.op = "advance_scene"
   /\ Loadable(dialogue_dir, Get(file, "scene"))
   /\ WellFormed(GraphOf(dialogue_dir, file["scene"]))
   /\ Acyclic(GraphOf(dialogue_dir, file["scene"]))
   /\ ev.streak >= Cardinality(DOMAIN GraphOf(dialogue_dir, file["scene"])))
  => ~is_active(file)

\* C14 witness: the second advance() in a row has ended the two-node scene
WalkTerminatesWitness ==
  /\ ev.op = "advance_scene" /\ ev.streak = 2 /\ ev.res = "ended"
  /\ Get(file, "scene") = "hi.json" /\ ~is_active(file)

\* C15: on the cycle of loop.json every advance() of the active scene
\* succeeds and leaves it active at a node of the graph with next_speaker
\* that node's declared speaker.
LoopAdvances ==
  [][(advance_scene /\ is_active(file) /\ file["scene"] = "loop.json") =>
       /\ ev'.res = "advanced"
       /\ is_active(file')
       /\ Get(file', "scene") = "loop.json"
       /\ Get(file', "current_node") \in DOMAIN GraphLoop
       /\ Get(file', "current_node") \in Targets(GraphLoop[file["current_node"]]["next"])
       /\ Get(file', "next_speaker") = GraphLoop[Get(file', "current_node")]["speaker"]]_vars

\* C15 witness: more advance() calls than the cycle has nodes have run and
\* the scene is still active, back at the node after start
LoopAdvancesWitness ==
  /\ ev.op = "advance_scene" /\ ev.streak = MaxStreak /\ ev.res = "advanced"
  /\ is_active(file) /\ file["scene"] = "loop.json"
  /\ file["current_node"] \in DOMAIN GraphLoop
  /\ file["next_speaker"] = GraphLoop[file["current_node"]]["speaker"]

(***************************************************************************)
(* The lifecycle with every process running (Spec)                         *)
(***************************************************************************)
\* C16: the persisted scene_active changes from false to true only by a
\* successful start(), so no advance() re-activates a stopped scene, not
\* even one that read the state before the stop; it changes from true to
\* false only by a terminal advance() or a stop().
LifecycleTransitions ==
  [][/\ (~is_active(load_scene_state(file)) /\ is_active(load_scene_state(file'))) =>
          /\ \E s \in CommandScenes : start_scene(s, "start")
          /\ ev'.op = "start_scene" /\ ev'.wrote
     /\ (is_active(load_scene_state(file)) /\ ~is_active(load_scene_state(file'))) =>
          \/ stop_scene_save
          \/ \E p \in Bots : advance_save(p) /\ ev'.res = "ended"]_vars

(***************************************************************************)
(* start() commands given to several bot processes at once (SpecRace)      *)
(***************************************************************************)
RaceNext ==
  \/ \E c \in Bots, s \in CommandScenes : start_scene_open(c, s, "start")
  \/ \E c \in Bots : start_scene_close(c)
  \/ ClockTick

SpecRace == Init /\ [][RaceNext]_vars

\* C17: start() overwrites: the record a start() has saved holds the new
\* scene's six fields and nothing of the record before it, and when two
\* start() calls race the persisted record is, in full, the record of the
\* one that wrote last.
StartOverwrites ==
  [][\A c \in Bots : start_scene_close(c) => file' = writing[c]]_vars

(***************************************************************************)
(* Ticks of a participant whose turn it is not (Spec)                      *)
(***************************************************************************)
\* the state p's tick reads is inactive or absent, or names another speaker
NotMyTurn(p) ==
  \/ ~is_active(load_scene_state(file))
  \/ Get(load_scene_state(file), "next_speaker") # p

\* C18: a tick that reads an inactive or absent state, or a next_speaker
\* other than the participant, does nothing: the participant enters no
\* turn (so it sends nothing and calls no advance_scene) and the state file
\* is left as it is; a participant's step changes the state file only
\* inside advance_scene.
IdleTick ==
  [][\A p \in Bots :
       /\ (check_and_participate(p) /\ NotMyTurn(p)) =>
            /\ ev'.res \in {"not_active", "not_my_turn"}
            /\ pc'[p] = "poll"
            /\ UNCHANGED <<file, turn, adv, emitted>>
       /\ (Participant(p) /\ file' # file) => advance_save(p)]_vars

\* C18 witness: a tick of a bot has returned while the active scene names
\* the other bot as next speaker
IdleTickWitness ==
  /\ ev.op = "tick" /\ ev.res = "not_my_turn"
  /\ is_active(file) /\ file["next_speaker"] # ev.who
  /\ pc[ev.who] = "poll"

(***************************************************************************)
(* Turns with an unreliable channel (SpecDelivery): SpecRun with the       *)
(* channel going down and up.                                              *)
(***************************************************************************)
DeliveryNext ==
  \/ RunNext
  \/ channel_change

SpecDelivery ==
  /\ InitRun
  /\ [][DeliveryNext]_vars
  /\ \A p \in Bots : WF_vars(Participant(p))

\* p's send has just failed
FailedSend(p) == ev.op = "send" /\ ev.who = p /\ ~ev.ok

\* p's advance_scene call has just loaded the state
AdvanceCalled(p) == ev.op \in {"advance_load", "advance_scene"} /\ ev.who = p

\* C19: a send that fails delivers nothing and leaves the participant in
\* its turn, waiting; the participant's next step is its advance_scene
\* call, and that call does take place.
DeliveryFailureKeepsTurn ==
  /\ [][\A p \in Bots :
          /\ (send_dialogue_message(p) /\ ~channel_up) =>
               /\ pc'[p] = "wait"
               /\ UNCHANGED <<file, emitted, turn>>
          /\ (Participant(p) /\ pc[p] = "wait") => (advance_load(p) /\ AdvanceCalled(p)')]_vars
  /\ \A p \in Bots : FailedSend(p) ~> AdvanceCalled(p)

\* C19 witness: A's line of hi.json was never delivered and A's advance has
\* moved the scene to the next node
DeliveryFailureWitness ==
  /\ ev.op = "advance_scene" /\ ev.who = "A" /\ ev.res = "advanced"
  /\ emitted = <<>>
  /\ Get(file, "scene") = "hi.json" /\ Get(file, "current_node") = "end"

(***************************************************************************)
(* The polling loop under failures (SpecLoop): scene files edited away,    *)
(* the state file damaged, the channel down, a node whose wait is null,    *)
(* and monitoring stopped and started again.                               *)
(***************************************************************************)
LoopScenes == {"hi.json", "odd.json"}

LoopNext ==
  \/ \E s \in LoopScenes : start_scene(s, "start")
  \/ \E p \in Bots : Participant(p)
  \/ \E p \in Bots : stop_scene_monitoring(p)
  \/ \E f \in EditFiles, c \in EditContents : edit_scene_file(f, c)
  \/ channel_change
  \/ damage_state_file

SpecLoop == Init /\ [][LoopNext]_vars

\* the step is a tick, a send, a wait or an advance of p that failed
FailedStep(p) ==
  \/ check_and_participate(p)
       /\ ev'.res \in {"invalid_state", "scene_not_found", "node_not_found",
                       "speaker_mismatch"}
  \/ check_and_participate(p) /\ Has(file, "unreadable")
  \/ send_dialogue_message(p) /\ ~channel_up
  \/ advance_load(p) /\ ev'.op = "turn" /\ ev'.res = "exception"
  \/ advance_save(p) /\ ev'.res \notin {"advanced", "ended"}

\* C20: a failure while reading the state, resolving the node, emitting,
\* waiting or advancing never ends the loop: the task stays alive, after a
\* failed tick or a failed turn it stands at its next tick, and that tick
\* can be taken; the task ends only by stop_scene_monitoring.
LoopSurvives ==
  /\ [](\A p \in Bots : is_running[p] <=> pc[p] # "off")
  /\ [](\A p \in Bots : pc[p] = "poll" => ENABLED check_and_participate(p))
  /\ [][\A p \in Bots :
          /\ FailedStep(p) => (is_running'[p] /\ pc'[p] # "off")
          /\ (FailedStep(p) /\ ~send_dialogue_message(p)) => pc'[p] = "poll"
          /\ (pc[p] # "off" /\ pc'[p] = "off") => stop_scene_monitoring(p)]_vars

\* C20 witness: the sleep of a null wait has raised in A's turn and A's
\* task stands at its next tick
LoopSurvivesWitness ==
  /\ ev.op = "turn" /\ ev.who = "A" /\ ev.res = "exception"
  /\ is_running["A"] /\ pc["A"] = "poll"

(***************************************************************************)
(* Ticks on any state file (SpecTick): the participants find a state file  *)
(* written by whoever, with scene and current_node present, null, empty or *)
(* missing, and scene files that come and go.                              *)
(***************************************************************************)
\* d with key k set to v, or d itself when v is Absent
OptPut(d, k, v) == IF v = Absent THEN d ELSE Put(d, k, v)

FoundStates ==
  {OptPut(OptPut([scene_active |-> TRUE, next_speaker |-> p], "scene", sc),
          "current_node", n) :
     p \in Bots,
     sc \in {Absent, None, "", "hi.json", "missing.json"},
     n \in {Absent, None, "start", "end", "ghost"}}

InitTick ==
  /\ file \in FoundStates
  /\ dialogue_dir = InitialDir
  /\ now = 0
  /\ channel_up = TRUE
  /\ is_running = [p \in Bots |-> FALSE]
  /\ pc = [p \in Bots |-> "off"]
  /\ turn = [p \in Bots |-> EmptyDict]
  /\ adv = [p \in Bots |-> EmptyDict]
  /\ stop_state = EmptyDict
  /\ emitted = <<>>
  /\ log_on = TRUE
  /\ ev = [op |-> "init"]
  /\ writing = [p \in Bots |-> EmptyDict]

TickNext ==
  \/ \E p \in Bots : Participant(p)
  \/ \E f \in EditFiles, c \in EditContents : edit_scene_file(f, c)

SpecTick == InitTick /\ [][TickNext]_vars

\* the turn-check of p's tick succeeds
TurnCheckPasses(p) ==
  /\ is_active(load_scene_state(file))
  /\ Get(load_scene_state(file), "next_speaker") = p

\* the node data cannot be resolved: the state lacks scene or current_node,
\* the graph cannot be loaded, or the current node is not in the graph
ResolveFails ==
  LET state == load_scene_state(file) IN
  \/ Get(state, "scene") \in {None, ""}
  \/ Get(state, "current_node") \in {None, ""}
  \/ ~Loadable(dialogue_dir, Get(state, "scene"))
  \/ Get(state, "current_node") \notin DOMAIN GraphOf(dialogue_dir, state["scene"])

\* C21: a tick that passes the turn-check and cannot resolve the node data
\* is abandoned: the participant sends nothing, enters no turn (so it calls
\* no advance_scene), leaves the state file alone and stands at its next
\* regular tick.
AbandonedTick ==
  [][\A p \in Bots :
       (check_and_participate(p) /\ TurnCheckPasses(p) /\ ResolveFails) =>
         /\ ev'.res \in {"invalid_state", "scene_not_found", "node_not_found"}
         /\ pc'[p] = "poll"
         /\ UNCHANGED <<file, emitted, turn, adv>>]_vars

\* C21 witness: the tick of the bot named next speaker has returned on a
\* current node that the graph does not have
AbandonedTickWitness ==
  /\ ev.op = "tick" /\ ev.res = "node_not_found"
  /\ TurnCheckPasses(ev.who) /\ pc[ev.who] = "poll" /\ emitted = <<>>

(***************************************************************************)
(* The interval of the polling loop (SpecLoop)                             *)
(***************************************************************************)
\* C22: the suspension after a participant's second tick in a row that
\* could not read the state file is the longer interval; after any other
\* tick it is the normal interval.
BackOff ==
  ev.op = "tick" =>
    ev.sleep = IF ev.fails >= 2 THEN ErrorInterval ELSE SceneCheckInterval

(***************************************************************************)
(* Cancelling the loop (SpecCancel): SpecRun's scene with monitoring       *)
(* stopped and started again at any suspension.                            *)
(***************************************************************************)
CancelNext ==
  \/ RunNext
  \/ \E p \in Bots : stop_scene_monitoring(p)

SpecCancel == InitRun /\ [][CancelNext]_vars

\* C23: stop_scene_monitoring during the interval sleep or the post-emit
\* wait ends the task and touches neither the state file nor the channel:
\* the scene is not stopped and the pending advance is dropped; the ended
\* task sends nothing and advances nothing, it can only be started again.
CancelLeavesScene ==
  [][\A p \in Bots :
       /\ stop_scene_monitoring(p) =>
            /\ pc'[p] = "off" /\ ~is_running'[p] /\ turn'[p] = EmptyDict
            /\ UNCHANGED <<file, emitted, adv>>
       /\ (Participant(p) /\ pc[p] = "off") =>
            /\ start_scene_monitoring(p) /\ pc'[p] = "poll"
            /\ UNCHANGED <<file, emitted>>]_vars

\* C23 witness: A was cancelled in the wait after its line of hi.json; the
\* scene is still active at A's node
CancelLeavesSceneWitness ==
  /\ ev.op = "stop_scene_monitoring" /\ ev.who = "A" /\ ev.at = "wait"
  /\ pc["A"] = "off"
  /\ is_active(file) /\ file["scene"] = "hi.json" /\ file["current_node"] = "start"
  /\ emitted = <<message("A", GraphHi["start"])>>

(***************************************************************************)
(* The SceneManager on a state file that may be damaged (SpecDamage):      *)
(* SpecCoord with the state file turning unreadable.                       *)
(***************************************************************************)
DamageNext ==
  \/ CoordNext
  \/ damage_state_file

SpecDamage == Init /\ [][DamageNext]_vars

StatusKeys ==
  {"scene", "current_node", "next_speaker", "started_at", "ended_at",
   "stopped_at"}

\* C24: status() can be called in every state, changes nothing, and
\* returns active = false alone when no state can be read, else the
\* record's scene_active and fields (null for the missing ones).
StatusIsPureRead ==
  /\ [](ENABLED scene_status)
  /\ [][scene_status =>
          /\ UNCHANGED <<file, dialogue_dir, now, channel_up, is_running, pc,
                         turn, adv, stop_state, emitted, log_on, writing>>
          /\ ev'.ret.active = is_active(load_scene_state(file))
          /\ (file = NoFile \/ Has(file, "unreadable")) =>
               ev'.ret = [active |-> FALSE]
          /\ (file # NoFile /\ ~Has(file, "unreadable")) =>
               \A k \in StatusKeys : ev'.ret[k] = Get(file, k)]_vars

\* C24 witness: status() has returned on a state file that cannot be read
StatusIsPureReadWitness ==
  /\ ev.op = "get_scene_status" /\ ev.ret = [active |-> FALSE]
  /\ Has(file, "unreadable")

(***************************************************************************)
(* The SceneManager on a failing storage (SpecStorage): state file and     *)
(* scene files that cannot be read, saves that raise.                      *)
(***************************************************************************)
StorageNext ==
  \/ \E sc \in CommandScenes, f \in Faults : start_scene_io(sc, "start", f)
  \/ \E f \in Faults : advance_scene_io(f)
  \/ \E f \in Faults : stop_scene_io(f)
  \/ \E f \in EditFiles, c \in EditContents : edit_scene_file(f, c)
  \/ damage_state_file
  \/ ClockTick

SpecStorage == Init /\ [][StorageNext]_vars

\* the graph of the state's scene cannot be read
GraphUnreadable(state, dir) ==
  Has(state, "scene") /\ Get(dir, state["scene"]) \in {Absent, Invalid}

\* C25: start(), advance() and stop() never raise: when the save fails or
\* the graph cannot be read start() returns false and advance() returns
\* None, when the state record cannot be read advance() returns None, and
\* stop() returns false when its save fails and true otherwise.
NoStorageException ==
  [][/\ \A sc \in CommandScenes, f \in Faults :
          start_scene_io(sc, "start", f) =>
            /\ ev'.ret \in {"True", "False"}
            /\ (ev'.raised \/ Get(dialogue_dir, sc) \in {None, Absent, Invalid})
                 => ev'.ret = "False"
     /\ \A f \in Faults :
          advance_scene_io(f) =>
            /\ ev'.ret \in {"node_data", "None"}
            /\ (\/ ev'.raised
                \/ Has(file, "unreadable")
                \/ GraphUnreadable(load_scene_state(file), dialogue_dir))
                 => ev'.ret = "None"
     /\ \A f \in Faults :
          stop_scene_io(f) =>
            /\ ev'.ret \in {"True", "False"}
            /\ ev'.ret = "False" <=> ev'.raised]_vars

\* C25 witness: the save of a start() has failed and start() has returned
\* false
NoStorageExceptionWitness ==
  /\ ev.op = "start_scene" /\ ev.res = "ok" /\ ev.raised /\ ev.ret = "False"

(***************************************************************************)
(* Commands and check task inside each bot process (SpecLock)              *)
(***************************************************************************)
LockNext ==
  \/ \E c \in Bots, sc \in RunScenes : command_start(c, sc)
  \/ \E c \in Bots : command_stop(c)
  \/ \E p \in Bots : Participant(p)

SpecLock == Init /\ [][LockNext]_vars

\* c's advance_scene has read the state and not yet written it
InReadModifyWrite(c) == pc[c] = "adv"

\* C26 as stated: the in-process lock is held during the whole
\* read-modify-write of an operation.
LockAroundReadModifyWrite ==
  \A c \in Bots : InReadModifyWrite(c) => lock_held(c)

\* C26: within one process no other write takes place between an
\* operation's read of the state and its write: while c's advance_scene is
\* between them, c runs no start and no stop, and the next write of c is
\* that advance's own.  The lock is taken only inside save_scene_state.
SerializedInProcess ==
  [][\A c \in Bots :
       InReadModifyWrite(c) =>
         /\ ~command_stop(c)
         /\ \A sc \in RunScenes : ~command_start(c, sc)
         /\ (Participant(c) /\ file' # file) => advance_save(c)
         /\ ~lock_held(c)]_vars

\* C26 witness: A's advance_scene is between its read and its write while
\* the other process has stopped the scene
SerializedInProcessWitness ==
  /\ InReadModifyWrite("A")
  /\ ev.op = "stop_scene" /\ ev.who = "B" /\ ev.wrote
  /\ is_active(adv["A"]) /\ ~is_active(file)

(***************************************************************************)
(* Validation (SpecValidate): the scene files of the directory and every   *)
(* graph of at most two nodes built from NodeShapes.                       *)
(***************************************************************************)
NodeIds == {"start", "a"}
NextShapes ==
  {NextNull, NextOther, NextDict(<<>>)}
  \cup {NextStr(t) : t \in {"start", "a", "ghost"}}
  \cup {NextDict(<<<<"yes", t1>>, <<"no", t2>>>>) : t1, t2 \in {"a", "ghost"}}

\* a node with the keys that are not Absent
ShapedNode(speaker, text, nxt) ==
  LET n1 == OptPut(EmptyDict, "speaker", speaker)
      n2 == OptPut(n1, "text", text) IN
  IF nxt = NextNull THEN n2
  ELSE [k \in DOMAIN n2 \cup {"next"} |-> IF k = "next" THEN nxt ELSE n2[k]]

NodeShapes ==
  {NotDict} \cup
  {ShapedNode(sp, tx, nx) :
     sp \in {Absent, None, "A", "B"}, tx \in {Absent, "x"}, nx \in NextShapes}

ValidateGraphs ==
  UNION {[ids -> NodeShapes] : ids \in (SUBSET NodeIds) \ {{}}}

\* the content of the scene file to validate is handed in
InitValidate ==
  /\ file = NoFile
  /\ dialogue_dir = InitialDir
  /\ now = 0
  /\ channel_up = TRUE
  /\ is_running = [p \in Bots |-> FALSE]
  /\ pc = [p \in Bots |-> "off"]
  /\ turn = [p \in Bots |-> EmptyDict]
  /\ adv = [p \in Bots |-> EmptyDict]
  /\ stop_state = EmptyDict
  /\ emitted = <<>>
  /\ log_on = FALSE
  /\ ev \in {[op |-> "init", scene_data |-> g] : g \in ValidateGraphs}
  /\ writing = [p \in Bots |-> EmptyDict]

ValidateNext ==
  \/ \E sc \in SceneFiles \cup {"missing.json"} : validate_scene(sc)
  \/ validate_loaded
  \/ \E f \in EditFiles, c \in EditContents : edit_scene_file(f, c)

SpecValidate == InitValidate /\ [][ValidateNext]_vars

\* every node is a record with speaker and text and every next target, of
\* a string or of a choice mapping, is a node of the graph
Sound(g) ==
  \A n \in DOMAIN g :
    /\ is_dict(g[n]) /\ Has(g[n], "speaker") /\ Has(g[n], "text")
    /\ Targets(node_next(g[n])) \subseteq DOMAIN g

\* the report is valid, without errors, with the node count and the
\* declared speakers of g
CleanReport(ret, g) ==
  /\ ret.valid /\ ret.errors = {}
  /\ ret.nodes = Cardinality(DOMAIN g)
  /\ ret.speakers = {g[n]["speaker"] : n \in DOMAIN g}

\* C27 as stated: validate on a graph whose every next target exists and
\* whose every node has speaker and text reports valid, zero errors, the
\* node count and the declared speakers.
ValidateSound ==
  (ev.op = "validate_scene" /\ ev.scene_data # EmptyDict /\ Sound(ev.scene_data))
    => CleanReport(ev.ret, ev.scene_data)

\* C27: validate on a graph that has a "start" node, whose every next
\* target exists and whose every node has speaker and text reports valid,
\* zero errors, the node count and the declared speakers.
ValidateSoundWithStart ==
  (/\ ev.op = "validate_scene" /\ ev.scene_data # EmptyDict
   /\ Sound(ev.scene_data) /\ "start" \in DOMAIN ev.scene_data)
    => CleanReport(ev.ret, ev.scene_data)

\* C27 witness: a two-node graph with two speakers and a choice mapping has
\* been reported valid
ValidateSoundWitness ==
  /\ ev.op = "validate_scene" /\ ev.ret.valid
  /\ ev.ret.nodes = 2 /\ ev.ret.speakers = {"A", "B"}
  /\ DOMAIN ev.scene_data = {"start", "a"}
  /\ node_next(ev.scene_data["start"]).kind = "dict"
  /\ Sound(ev.scene_data)

\* the graph lacks "start", or a node is no record or lacks speaker or
\* text, or a next target is not a node of the graph
Defective(g) ==
  \/ "start" \notin DOMAIN g
  \/ \E n \in DOMAIN g :
       \/ ~is_dict(g[n])
       \/ ~Has(g[n], "speaker")
       \/ ~Has(g[n], "text")
       \/ ~(Targets(node_next(g[n])) \subseteq DOMAIN g)

\* C28: validate reports valid exactly when its error list is empty, and
\* the error list is not empty for every graph that lacks "start", has a
\* node that is no record or lacks speaker or text, or has a next target,
\* of a string or of a choice mapping, that is no node of the graph.
ValidateComplete ==
  ev.op = "validate_scene" =>
    /\ ev.ret.valid <=> ev.ret.errors = {}
    /\ Defective(ev.scene_data) => ev.ret.errors # {}

\* C28 witness: the only error reported is the second target of a choice
\* mapping
ValidateCompleteWitness ==
  /\ ev.op = "validate_scene" /\ ~ev.ret.valid
  /\ ev.ret.errors = {<<"choice", "start", "no", "ghost">>}

(***************************************************************************)
(* Abandoned scenes (SpecAbandon): scenes are started and stopped by one   *)
(* process while the bots' check tasks are started and cancelled.          *)
(***************************************************************************)
AbandonNext ==
  \/ \E s \in RunScenes : start_scene(s, "start")
  \/ stop_scene
  \/ \E p \in Bots : Participant(p)
  \/ \E p \in Bots : stop_scene_monitoring(p)
  \/ ClockTick

SpecAbandon == Init /\ [][AbandonNext]_vars

\* the scene is active and the bot its next_speaker names runs no check task
Abandoned ==
  /\ is_active(load_scene_state(file))
  /\ Get(file, "next_speaker") \in Bots
  /\ ~is_running[Get(file, "next_speaker")]

\* a step of p's tick: the check or a step of the turn it began
TickStep(p) ==
  \/ check_and_participate(p)
  \/ send_dialogue_message(p)
  \/ advance_load(p)
  \/ advance_save(p)

\* C29: while the scene is active and the participant its next_speaker
\* names is not running, no step of any participant's tick and no passing
\* of time changes the scene state.
AbandonedInert ==
  [][(Abandoned /\ (ClockTick \/ \E p \in Bots : TickStep(p))) => file' = file]_vars

(***************************************************************************)
(* Listing the scenes (SpecList): list_available_scenes while files come   *)
(* and go in the dialogue directory and the directory itself is removed    *)
(* or made unreadable.                                                     *)
(***************************************************************************)
\* the names a directory entry may have
ListNames == {"hi.json", "choice.json", "Z.json", ".json", "notes.txt", "hi.json.bak", "hi.JSON", "json"}

\* a file name as the characters str holds
chars ==
  [f \in ListNames |->
     CASE f = "hi.json" -> <<"h", "i", ".", "j", "s", "o", "n">>
       [] f = "choice.json" -> <<"c", "h", "o", "i", "c", "e", ".", "j", "s", "o", "n">>
       [] f = "Z.json" -> <<"Z", ".", "j", "s", "o", "n">>
       [] f = ".json" -> <<".", "j", "s", "o", "n">>
       [] f = "notes.txt" -> <<"n", "o", "t", "e", "s", ".", "t", "x", "t">>
       [] f = "hi.json.bak" -> <<"h", "i", ".", "j", "s", "o", "n", ".", "b", "a", "k">>
       [] f = "hi.JSON" -> <<"h", "i", ".", "J", "S", "O", "N">>
       [] f = "json" -> <<"j", "s", "o", "n">>]

\* ord(c) of the characters of ListNames
ord ==
  [c \in {".", "J", "N", "O", "S", "Z", "a", "b", "c", "e", "h", "i", "j", "k", "n", "o", "s", "t", "x"} |->
     CASE c = "." -> 46
       [] c = "J" -> 74
       [] c = "N" -> 78
       [] c = "O" -> 79
       [] c = "S" -> 83
       [] c = "Z" -> 90
       [] c = "a" -> 97
       [] c = "b" -> 98
       [] c = "c" -> 99
       [] c = "e" -> 101
       [] c = "h" -> 104
       [] c = "i" -> 105
       [] c = "j" -> 106
       [] c = "k" -> 107
       [] c = "n" -> 110
       [] c = "o" -> 111
       [] c = "s" -> 115
       [] c = "t" -> 116
       [] c = "x" -> 120]

\* os.path.exists(DIALOGUE_DIR) is false
DirMissing == [missing |-> TRUE]
\* os.listdir(DIALOGUE_DIR) raises (no permission, or not a directory)
DirDenied == [denied |-> TRUE]
\* a directory without entries
EmptyDirectory == [f \in ListNames |-> Absent]

\* os.listdir(dir): the names of the entries
listdir(dir) == {f \in DOMAIN dir : dir[f] # Absent}

\* filename.endswith(suffix)
endswith(filename, suffix) ==
  LET s == chars[filename] IN
  /\ Len(s) >= Len(suffix)
  /\ SubSeq(s, Len(s) - Len(suffix) + 1, Len(s)) = suffix

\* s < t of two str values: by code point, a proper prefix first
RECURSIVE seq_less(_, _)
seq_less(s, t) ==
  IF s = <<>> THEN t # <<>>
  ELSE IF t = <<>> THEN FALSE
  ELSE IF ord[Head(s)] # ord[Head(t)] THEN ord[Head(s)] < ord[Head(t)]
  ELSE seq_less(Tail(s), Tail(t))

str_less(a, b) == seq_less(chars[a], chars[b])

\* a listing that puts the greatest name first
RECURSIVE sorted_descending(_)
sorted_descending(names) ==
  IF names = {} THEN <<>>
  ELSE LET m == CHOOSE x \in names : \A y \in names \ {x} : str_less(y, x)
       IN <<m>> \o sorted_descending(names \ {m})

\* sorted(scene_files)
RECURSIVE sorted(_)
sorted(names) ==
  IF names = {} THEN <<>>
  ELSE LET m == CHOOSE x \in names : \A y \in names \ {x} : str_less(x, y)
       IN <<m>> \o sorted(names \ {m})

\* what list_available_scenes returns for the directory dir
available_scenes(dir) ==
  IF dir = DirMissing THEN <<>>          \* line 273
  ELSE IF dir = DirDenied THEN <<>>      \* line 284
  ELSE sorted({f \in listdir(dir) : endswith(f, <<".", "j", "s", "o", "n">>)})

list_available_scenes ==
  /\ ev' = [op |-> "list_available_scenes", ret |-> available_scenes(dialogue_dir)]
  /\ UNCHANGED <<file, dialogue_dir, now, channel_up, is_running, pc, turn,
                 adv, stop_state, emitted, log_on, writing>>

\* the directory is removed, made unreadable, or created anew
change_dialogue_dir(d) ==
  /\ dialogue_dir # d
  /\ dialogue_dir \in {DirMissing, DirDenied} \/ d \in {DirMissing, DirDenied}
  /\ dialogue_dir' = d
  /\ UNCHANGED <<file, now, channel_up, is_running, pc, turn, adv, stop_state,
                 emitted, log_on, ev, writing>>

InitList ==
  /\ file = NoFile
  /\ dialogue_dir = [f \in ListNames |->
                       IF f \in {"hi.json", "choice.json"} THEN InitialDir[f]
                       ELSE Absent]
  /\ now = 0
  /\ channel_up = TRUE
  /\ is_running = [p \in Bots |-> FALSE]
  /\ pc = [p \in Bots |-> "off"]
  /\ turn = [p \in Bots |-> EmptyDict]
  /\ adv = [p \in Bots |-> EmptyDict]
  /\ stop_state = EmptyDict
  /\ emitted = <<>>
  /\ log_on = FALSE
  /\ ev = [op |-> "init"]
  /\ writing = [p \in Bots |-> EmptyDict]

ListNext ==
  \/ list_available_scenes
  \/ /\ dialogue_dir \notin {DirMissing, DirDenied}
     /\ \E f \in ListNames, c \in {"hi", Absent} : edit_scene_file(f, c)
  \/ \E d \in {DirMissing, DirDenied, EmptyDirectory} : change_dialogue_dir(d)

SpecList == InitList /\ [][ListNext]_vars

\* ret is the listing the directory dir should give
ListingOf(ret, dir) ==
  IF dir \in {DirMissing, DirDenied} THEN ret = <<>>
  ELSE /\ {ret[i] : i \in DOMAIN ret} =
            {f \in ListNames : dir[f] # Absent
                               /\ endswith(f, <<".", "j", "s", "o", "n">>)}
       /\ \A i, j \in DOMAIN ret : i < j => str_less(ret[i], ret[j])

\* C30: list_available_scenes returns exactly the names of the directory's
\* entries that end in ".json", each once and in lexicographic order, it
\* returns the empty sequence when the directory is missing or cannot be
\* read, and it changes neither the scene state nor the directory.
ListScenes ==
  [][list_available_scenes =>
       /\ ListingOf(ev'.ret, dialogue_dir)
       /\ file' = file /\ dialogue_dir' = dialogue_dir]_vars

\* C30 witness: a listing of four scenes, upper case before lower case,
\* from a directory that also holds names not ending in ".json"
ListScenesWitness ==
  /\ ev.op = "list_available_scenes"
  /\ ev.ret = <<".json", "Z.json", "choice.json", "hi.json">>
  /\ dialogue_dir = [f \in ListNames |-> "hi"]

(***************************************************************************)
(* The order of the steps of a turn (SpecLoop)                             *)
(***************************************************************************)
\* this step is p's call of advance_scene
CallsAdvance(p) ==
  /\ ev' # ev
  /\ ev'.op \in {"advance_load", "advance_scene"}
  /\ Get(ev', "who") = p
  /\ pc[p] # "adv"

\* the node the graph on disk holds for the current node of state
NodeOnDisk(state, dir) ==
  Get(load_scene_data(dir, Get(state, "scene")), Get(state, "current_node"))

\* C31: a participant calls advance_scene only from the wait of its turn,
\* when the sleep of the node's wait (2 when the node gives none) has
\* returned; it enters the wait only by the attempt to send the node's
\* text; it enters the send only from its check, with the current node of
\* the graph naming it as speaker; and after advance_scene the tick is
\* over, so a tick calls advance_scene at most once.
TurnOrder ==
  [][\A p \in Bots :
       /\ CallsAdvance(p) =>
            /\ pc[p] = "wait"
            /\ Get(turn[p].node_data, "speaker") = p
            /\ wait_time(turn[p].node_data) =
                 (IF Has(turn[p].node_data, "wait")
                  THEN turn[p].node_data["wait"] ELSE WaitNum(2))
            /\ wait_time(turn[p].node_data).kind = "num"
       /\ (pc'[p] = "wait" /\ pc[p] # "wait") =>
            /\ pc[p] = "send"
            /\ ev'.op = "send" /\ Get(ev', "who") = p
            /\ Get(ev', "msg") = message(p, turn[p].node_data)
       /\ (pc'[p] = "send" /\ pc[p] # "send") =>
            /\ pc[p] = "poll"
            /\ turn'[p].node_data = NodeOnDisk(load_scene_state(file), dialogue_dir)
            /\ Get(turn'[p].node_data, "speaker") = p
       /\ pc[p] = "adv" => pc'[p] \in {"adv", "poll"}
       /\ (pc'[p] = "adv" /\ pc[p] # "adv") => pc[p] = "wait"]_vars

\* C31 witness: A's turn has advanced hi.json from "start" to "end"
TurnOrderWitness ==
  /\ ev.op = "advance_scene" /\ Get(ev, "who") = "A" /\ ev.wrote
  /\ Get(file, "current_node") = "end"

(***************************************************************************)
(* Restart (SpecRestart): the check tasks are cancelled and started again  *)
(* during a scene; a task that is running gets to take its steps.          *)
(***************************************************************************)
SpecRestart ==
  /\ InitRun
  /\ [][CancelNext]_vars
  /\ \A p \in Bots : WF_vars(TickStep(p))

\* the persisted state is active and names p as next speaker
TurnOf(p) ==
  is_active(load_scene_state(file)) /\ Get(file, "next_speaker") = p

\* p's monitoring has just been started
JustStarted(p) == ev.op = "start_scene_monitoring" /\ Get(ev, "who") = p

\* C32: a participant that is started (again) is at its check, not in the
\* interval sleep; when the persisted state is active and names it, its
\* first tick takes the turn for the persisted current node; and from
\* there, unless the participant is stopped again, its advance_scene call
\* writes the next state.
RestartRecovers ==
  /\ [][\A p \in Bots :
          /\ (is_running'[p] /\ ~is_running[p]) => pc'[p] = "poll"
          /\ (JustStarted(p) /\ TurnOf(p) /\ ev'.op = "tick" /\ Get(ev', "who") = p) =>
               /\ pc'[p] = "send"
               /\ turn'[p].state = file
               /\ turn'[p].node_data = NodeOnDisk(file, dialogue_dir)]_vars
  /\ \A p \in Bots :
       (JustStarted(p) /\ TurnOf(p))
         ~> (\/ ~is_running[p]
             \/ ev.op = "advance_scene" /\ Get(ev, "who") = p /\ ev.wrote)

\* C32 witness: A spoke its line of hi.json, was cancelled in the wait and
\* started again; it spoke the line once more and advanced the scene
RestartRecoversWitness ==
  /\ ev.op = "advance_scene" /\ Get(ev, "who") = "A" /\ ev.wrote
  /\ Get(file, "current_node") = "end"
  /\ emitted = <<[bot |-> "A", text |-> "hi"], [bot |-> "A", text |-> "hi"]>>

\* C33: a node's text is posted at most once per visit of the node, also
\* when the speaker's task is cancelled in the wait after the post and
\* started again.  (Under SpecCancel every scene is started once and has
\* no cycle, so every node is visited once and every line of the channel
\* log belongs to one visit.)
EmitOncePerVisit ==
  \A i, j \in DOMAIN emitted : i < j => emitted[i] # emitted[j]

(***************************************************************************)
(* A stop during the wait of a turn (Spec)                                 *)
(***************************************************************************)
\* the step is one of p's task outside advance_scene's load-to-save part
OutsideAdvance(p) ==
  \/ check_and_participate(p)
  \/ send_dialogue_message(p)
  \/ advance_load(p)

\* C34: when the persisted scene has been stopped while participant p is
\* in the wait after its post (or at any other place outside
\* advance_scene), p's pending advance_scene finds the scene inactive and
\* writes nothing, and no later step of p's task changes the stopped
\* record: it stays inactive with current_node and next_speaker cleared.
StopIsFinal ==
  [][\A p \in Bots :
       (OutsideAdvance(p) /\ Cleared(load_scene_state(file))) =>
         /\ file' = file
         /\ pc'[p] # "adv"
         /\ (pc[p] = "wait" /\ ev'.op = "advance_scene") =>
              ev'.res = "no_active" /\ ~ev'.wrote]_vars

\* C34 witness: B's advance_scene after its wait has found the stopped
\* scene and written nothing
StopIsFinalWitness ==
  /\ ev.op = "advance_scene" /\ Get(ev, "who") = "B"
  /\ Get(ev, "res") = "no_active"
  /\ file # NoFile /\ Cleared(file) /\ Has(file, "stopped_at")

(***************************************************************************)
(* Reads that fail (SpecStop): one process starts, advances and stops the  *)
(* scene while the open or the read of the state file may raise.           *)
(***************************************************************************)
ReadFaults == {"none", "read"}

\* load_scene_state when open() or json.load raises: lines 60-65 return {}
load_scene_state_io(f, fault) ==
  IF fault = "read" THEN EmptyDict ELSE load_scene_state(f)

\* stop_scene with a read and a save that may fail
stop_scene_rw(read_fault, fault) ==
  LET r == stop_scene_outcome(load_scene_state_io(file, read_fault), now)
      w == save_scene_state(file, r.state, fault) IN
  /\ read_fault = "read" => file # NoFile      \* line 49: nothing is opened
  /\ file' = IF r.save THEN w.file ELSE file
  /\ ev' = [op |-> "stop_scene", res |-> r.res, tried |-> r.save,
            raised |-> r.save /\ w.raised,
            ret |-> stop_scene_return(r, w.raised)]
  /\ UNCHANGED <<dialogue_dir, now, channel_up, is_running, pc, turn, adv,
                 stop_state, emitted, log_on, writing>>

StopNext ==
  \/ \E sc \in CommandScenes, f \in Faults : start_scene_io(sc, "start", f)
  \/ \E f \in Faults : advance_scene_io(f)
  \/ \E rf \in ReadFaults, f \in Faults : stop_scene_rw(rf, f)
  \/ damage_state_file
  \/ ClockTick

SpecStop == Init /\ [][StopNext]_vars

\* C35: after a stop_scene that returned True, with no other writer, the
\* persisted record is not active: it is missing, cannot be parsed, or has
\* scene_active false; also when stop_scene's own read failed.
StopSuccessNotActive ==
  (ev.op = "stop_scene" /\ Get(ev, "ret") = "True") =>
    ~is_active(load_scene_state(file))

(***************************************************************************)
(* validate_scene against start_scene and advance_scene (SpecAgree): one   *)
(* process validates, starts and advances the scenes of a directory.       *)
(***************************************************************************)
AgreeFiles == {"hi.json", "choice.json", "lax.json", "mute.json", "num.json"}

AgreeDir ==
  [f \in AgreeFiles |->
     CASE f = "hi.json" -> "hi"
       [] f = "choice.json" -> "choice"
       [] f = "lax.json" -> "lax"
       [] f = "mute.json" -> "mute"
       [] OTHER -> "num"]

InitAgree ==
  /\ file = NoFile
  /\ dialogue_dir = AgreeDir
  /\ now = 0
  /\ channel_up = TRUE
  /\ is_running = [p \in Bots |-> FALSE]
  /\ pc = [p \in Bots |-> "off"]
  /\ turn = [p \in Bots |-> EmptyDict]
  /\ adv = [p \in Bots |-> EmptyDict]
  /\ stop_state = EmptyDict
  /\ emitted = <<>>
  /\ log_on = FALSE
  /\ ev = [op |-> "init"]
  /\ writing = [p \in Bots |-> EmptyDict]

AgreeNext ==
  \/ \E sc \in AgreeFiles : validate_scene(sc)
  \/ \E sc \in AgreeFiles : start_scene(sc, "start")
  \/ advance_scene
  \/ ClockTick

SpecAgree == InitAgree /\ [][AgreeNext]_vars

\* validate_scene reports the scene file sc of the directory valid
ReportedValid(sc) ==
  validation_result(load_scene_data(dialogue_dir, sc)).valid

\* the nodes of the graph of sc that its edges reach from "start"
ReachableNodes(sc) ==
  LET g == load_scene_data(dialogue_dir, sc) IN
  ReachWithin(g, {"start"}, Cardinality(DOMAIN g))

\* C36: for a scene that validate_scene reports valid, start_scene
\* succeeds and advance_scene at every node reachable from "start" moves
\* to the next node or ends the scene.
ValidateAgrees ==
  /\ (ev.op = "start_scene" /\ ReportedValid(ev.scene)) => ev.res = "ok"
  /\ (/\ ev.op = "advance_scene"
      /\ is_active(load_scene_state(file))
      /\ ReportedValid(file["scene"])
      /\ file["current_node"] \in ReachableNodes(file["scene"]))
       => ev.res \in {"advanced", "ended"}

(***************************************************************************)
(* The timestamps of the persisted record (Spec)                           *)
(***************************************************************************)
\* records a and b agree on key k
SameAt(a, b, k) == Has(a, k) = Has(b, k) /\ Get(a, k) = Get(b, k)

\* C37: every persisted record with scene_active true has started_at and
\* has neither ended_at nor stopped_at.  A start writes a record without
\* ended_at and stopped_at; an advance leaves stopped_at as in the record
\* it read and touches ended_at exactly when it ends the scene; a stop
\* leaves ended_at as in the record it read and sets stopped_at.
TimestampsConsistent ==
  /\ [](is_active(load_scene_state(file)) =>
          /\ Has(file, "started_at")
          /\ ~Has(file, "ended_at")
          /\ ~Has(file, "stopped_at"))
  /\ [][file' # file =>
          /\ ev'.op \in {"start_scene", "advance_scene", "stop_scene"}
          /\ ev'.op = "start_scene" =>
               ~Has(file', "ended_at") /\ ~Has(file', "stopped_at")
          /\ ev'.op = "advance_scene" =>
               /\ SameAt(file', adv[ev'.who], "stopped_at")
               /\ SameAt(file', adv[ev'.who], "started_at")
               /\ IF ev'.res = "ended"
                  THEN Get(file', "ended_at") = Stamp(now)
                  ELSE SameAt(file', adv[ev'.who], "ended_at")
          /\ ev'.op = "stop_scene" =>
               /\ SameAt(file', stop_state, "ended_at")
               /\ SameAt(file', stop_state, "started_at")
               /\ Get(file', "stopped_at") = Stamp(now)]_vars

\* C37 witness: a scene started at clock value 1 is active after a
\* non-terminal advance
TimestampsConsistentWitness ==
  /\ is_active(load_scene_state(file))
  /\ ev.op = "advance_scene" /\ Get(ev, "res") = "advanced"
  /\ Get(file, "started_at") = Stamp(1)

\* C38: every record that start_scene, advance_scene or stop_scene has
\* persisted holds waiting_for_choice = false, also after an advance
\* through a node whose next is a choice mapping.
NeverWaitsForChoice ==
  (file # NoFile /\ ~Has(file, "unreadable")) =>
    Has(file, "waiting_for_choice") /\ file["waiting_for_choice"] = FALSE

\* C38 witness: the record right after an advance that took the first
\* entry of a choice mapping without "continue"
NeverWaitsForChoiceWitness ==
  /\ ev.op = "advance_scene" /\ Get(ev, "res") = "advanced"
  /\ dialogue_dir["choice.json"] = BranchId(<<<<"yes", "nodeY">>, <<"no", "nodeC">>>>)
  /\ Get(file, "current_node") = "nodeY"

(***************************************************************************)
(* The check task of an engine (SpecTask): start_scene_monitoring and      *)
(* stop_scene_monitoring called at any time, also when there is nothing to *)
(* start or to stop.  pc[p] # "off" says that p's engine has a live task.  *)
(***************************************************************************)
\* start_scene_monitoring that creates a task although one is running
start_scene_monitoring_second(p) ==
  /\ is_running[p]
  /\ pc' = [pc EXCEPT ![p] = "poll"]
  /\ turn' = [turn EXCEPT ![p] = EmptyDict]
  /\ ev' = [op |-> "start_scene_monitoring", who |-> p, created |-> TRUE]
  /\ UNCHANGED <<file, dialogue_dir, now, channel_up, is_running, adv,
                 stop_state, emitted, log_on, writing>>

\* start_scene_monitoring while is_running: lines 28-30 return at once
start_scene_monitoring_again(p) ==
  /\ is_running[p]
  /\ ev' = [op |-> "start_scene_monitoring", who |-> p, created |-> FALSE]
  /\ UNCHANGED <<file, dialogue_dir, now, channel_up, is_running, pc, turn,
                 adv, stop_state, emitted, log_on, writing>>

\* stop_scene_monitoring when no task runs: check_task is None or done, so
\* cancel() does nothing and the await returns
stop_scene_monitoring_again(p) ==
  /\ ~is_running[p]
  /\ ev' = [op |-> "stop_scene_monitoring", who |-> p, at |-> pc[p]]
  /\ UNCHANGED <<file, dialogue_dir, now, channel_up, is_running, pc, turn,
                 adv, stop_state, emitted, log_on, writing>>

TaskNext ==
  \/ \E s \in RunScenes : start_scene(s, "start")
  \/ \E p \in Bots : Participant(p)
  \/ \E p \in Bots : start_scene_monitoring_again(p)
  \/ \E p \in Bots : stop_scene_monitoring(p)
  \/ \E p \in Bots : stop_scene_monitoring_again(p)

SpecTask == Init /\ [][TaskNext]_vars

\* the step is a call of operation op of p's engine
Calls(op, p) == ev' # ev /\ ev'.op = op /\ Get(ev', "who") = p

\* C39: an engine has a live check task exactly when is_running is set.
\* start_scene_monitoring creates a task only when the engine has none;
\* called while a task runs it creates nothing and leaves the running
\* task where it is.  When stop_scene_monitoring returns the engine has
\* no live task, so the next start gives exactly one.
OneTask ==
  /\ [](\A p \in Bots : is_running[p] <=> pc[p] # "off")
  /\ [][\A p \in Bots :
          /\ Calls("start_scene_monitoring", p) =>
               IF pc[p] # "off"
               THEN pc' = pc /\ turn' = turn /\ is_running' = is_running
               ELSE pc'[p] = "poll" /\ is_running'[p]
          /\ Calls("stop_scene_monitoring", p) =>
               pc'[p] = "off" /\ ~is_running'[p]]_vars

\* C39 witness: start_scene_monitoring was called while A's task was in
\* the wait of its turn
OneTaskWitness ==
  /\ ev.op = "start_scene_monitoring" /\ Get(ev, "who") = "A"
  /\ Has(ev, "created") /\ ~ev.created
  /\ pc["A"] = "wait" /\ is_running["A"]

====
